---- MODULE Spec2Model ----
(***************************************************************************)
(* The form rendering/state engine: FormBuilderBase (formBuilderBase.js),  *)
(* its preview subclass FormPreview and the schema query utilities.        *)
(* One action per event handler or timer callback; every action contains   *)
(* the whole handler, including the re-render it ends with.  The schema    *)
(* editor's SchemaManager (schemaEditor.js) is a second machine over its   *)
(* own variable.                                                           *)
(***************************************************************************)
EXTENDS Integers, Sequences, FiniteSets, TLC

VARIABLES
    activeSchema,          \* this.activeSchema: 0 is null, else an index into Schemas
    state,                 \* this.state: field name -> value, Undefined when the key is absent
    currentStage,          \* this.currentStage
    furthestStageReached,  \* this.furthestStageReached
    pendingRenderTimers,   \* this.pendingRenderTimers, in insertion (= firing) order
    isSubmitting,          \* this.isSubmitting
    dom,                   \* what the last render left in the container, indicator and controls
    outstanding,           \* number of _postPayload promises not yet settled
    validated,             \* stages whose validation passed when "next" left them (this session)
    schemaManager,         \* the editor's SchemaManager: this.schema and this.hasUnsavedChanges
    focus,                 \* focusVersion, lastStageFocusTarget, document.activeElement and the
                           \* focus targets the pending timers captured
    lastOp                 \* the handler that ran last, and its inputs

vars == <<activeSchema, state, currentStage, furthestStageReached,
          pendingRenderTimers, isSubmitting, dom, outstanding, validated,
          schemaManager, focus, lastOp>>

-----------------------------------------------------------------------------
(* Bounds *)

MaxOutstanding == 2   \* submissions that may be awaiting the policy at once
MaxErrors == 2        \* size of an error map returned by the validation policy
MaxStages == 2        \* stages the editor's schema may hold
MaxFields == 2        \* fields the editor's schema may hold, over all stages
MaxNameLen == 14      \* longest stage id or field name a duplicate may be given
MaxFocusVersion == 3  \* focusin events the focus specification follows

-----------------------------------------------------------------------------
(* JavaScript values: a pair <<typeof, printed form>>, so that === is      *)
(* equality of pairs and the string "true" differs from the boolean true.  *)

Undefined == <<"undefined", "">>
Bool(b) == <<"boolean", IF b THEN "true" ELSE "false">>
Str(s) == <<"string", s>>
Null == <<"object", "null">>

\* String(value): the printed form
String(value) == IF value = Undefined THEN "undefined" ELSE value[2]

\* a stage index argument: a number, or undefined/null
Num(n) == [isNumber |-> TRUE, n |-> n]
NotANumber == [isNumber |-> FALSE, n |-> 0]

-----------------------------------------------------------------------------
(* Schemas *)

NoShowIf == [field |-> "", equals |-> Undefined]

Field(name, type) == [name |-> name, type |-> type, hasShowIf |-> FALSE, showIf |-> NoShowIf]
FieldIf(name, type, ctrl, eq) ==
    [name |-> name, type |-> type, hasShowIf |-> TRUE, showIf |-> [field |-> ctrl, equals |-> eq]]

Stage(type, optional, fields) == [type |-> type, optional |-> optional, fields |-> fields]

RECURSIVE flatMapFields(_)
flatMapFields(stages) ==
    IF stages = <<>> THEN <<>>
    ELSE Head(stages).fields \o flatMapFields(Tail(stages))

\* a schema as the editor exports it: stages plus the flattened fields array
Exported(stages) == [hasStages |-> TRUE, stages |-> stages, hasFields |-> TRUE,
                     fields |-> flatMapFields(stages)]

\* three data stages; the conditional chain of the last stage is declared
\* dependents first: d <- c <- b <- hasPet
SchemaA == Exported(<<
    Stage("data", FALSE, << Field("email", "email") >>),
    Stage("data", FALSE, << Field("info", "Plain Text") >>),
    Stage("data", FALSE, << FieldIf("d", "textarea", "c", Str("a")),
                            FieldIf("c", "select", "b", Str("a")),
                            FieldIf("b", "text", "hasPet", Bool(TRUE)),
                            Field("hasPet", "checkbox") >>) >>)

\* one data stage followed by an optional summary; shares names with SchemaA
SchemaB == Exported(<<
    Stage("data", FALSE, << Field("hasPet", "checkbox"),
                            FieldIf("email", "email", "hasPet", Bool(TRUE)) >>),
    Stage("summary", TRUE, <<>>) >>)

\* two data stages and a mandatory summary
SchemaC == Exported(<<
    Stage("data", FALSE, << Field("email", "email") >>),
    Stage("data", FALSE, << Field("hasPet", "checkbox") >>),
    Stage("summary", FALSE, <<>>) >>)

\* an empty stages array with declared fields: rendered as a single-stage form
SchemaD == [hasStages |-> TRUE, stages |-> <<>>, hasFields |-> TRUE,
            fields |-> << Field("hasPet", "checkbox"),
                          FieldIf("b", "text", "hasPet", Bool(TRUE)) >>]

\* a legacy object without a stages property: rejected by loadSchema
SchemaNoStages == [hasStages |-> FALSE, stages |-> <<>>, hasFields |-> TRUE,
                   fields |-> << Field("email", "email") >>]

\* two data stages followed by an optional summary
SchemaE == Exported(<<
    Stage("data", FALSE, << Field("email", "email") >>),
    Stage("data", FALSE, << Field("hasPet", "checkbox") >>),
    Stage("summary", TRUE, <<>>) >>)

\* one stage; a chain of five conditional radio groups under a checkbox,
\* declared dependents first: info <- email <- d <- c <- b <- hasPet
SchemaF == Exported(<<
    Stage("data", FALSE, << FieldIf("info", "radio", "email", Str("a")),
                            FieldIf("email", "radio", "d", Str("a")),
                            FieldIf("d", "radio", "c", Str("a")),
                            FieldIf("c", "radio", "b", Str("a")),
                            FieldIf("b", "radio", "hasPet", Bool(TRUE)),
                            Field("hasPet", "checkbox") >>) >>)

\* one stage with two free-text controllers: d <- c <- b, declared
\* controllers first
SchemaG == Exported(<<
    Stage("data", FALSE, << Field("b", "tel"),
                            FieldIf("c", "url", "b", Str("a")),
                            FieldIf("d", "textarea", "c", Str("a")) >>) >>)

\* two data stages; the first holds a free-text controller and its
\* dependent, the second a radio group
SchemaH == Exported(<<
    Stage("data", FALSE, << Field("b", "text"),
                            FieldIf("c", "tel", "b", Str("a")) >>),
    Stage("data", FALSE, << Field("d", "radio") >>) >>)

\* the schemas the preview is given
PreviewSchemas == << SchemaA, SchemaB, SchemaC, SchemaD, SchemaNoStages, SchemaE, SchemaF,
                     SchemaG >>

\* three data stages and a summary: a checkbox with a dependent select and
\* a radio group, a dependent textarea beside a plain-text block, and a
\* stage that holds a plain-text block only
SchemaS == Exported(<<
    Stage("data", FALSE, << Field("hasPet", "checkbox"),
                            FieldIf("c", "select", "hasPet", Bool(TRUE)),
                            Field("b", "radio") >>),
    Stage("data", FALSE, << Field("info", "plain text"),
                            FieldIf("d", "textarea", "c", Str("a")) >>),
    Stage("data", FALSE, << Field("email", "PLAINTEXT") >>),
    Stage("summary", FALSE, <<>>) >>)

\* the schemas of the focus and of the summary specifications come last
Schemas == PreviewSchemas \o << SchemaH, SchemaS >>

NullSchema == 0
SchemaIds == 1..Len(PreviewSchemas)
FocusSchemaId == Len(PreviewSchemas) + 1
SummarySchemaId == Len(PreviewSchemas) + 2

FieldNames == {"email", "info", "b", "c", "d", "hasPet"}

\* the values an input or change event can carry for a field of this type
EventValues(type) ==
    IF type = "checkbox" THEN {Bool(TRUE), Bool(FALSE)}
    ELSE IF type \in {"text", "select"} THEN {Str("a"), Str("b")}
    ELSE {Str("a")}

Range(s) == {s[i] : i \in 1..Len(s)}

-----------------------------------------------------------------------------
(* schemaUtils.js *)

isMultiStage(schema) == schema.hasStages /\ Len(schema.stages) > 0

getStageCount(schema) == IF isMultiStage(schema) THEN Len(schema.stages) ELSE 1

\* stageIndex is a Num(n), or NotANumber for the default null
getFields(schema, stageIndex) ==
    IF isMultiStage(schema)
    THEN IF stageIndex.isNumber
         THEN IF stageIndex.n >= 0 /\ stageIndex.n < Len(schema.stages)
              THEN schema.stages[stageIndex.n + 1].fields
              ELSE <<>>
         ELSE IF schema.hasFields THEN schema.fields ELSE flatMapFields(schema.stages)
    ELSE IF schema.hasFields THEN schema.fields ELSE <<>>

\* a comparison that converts both sides to their printed form
evaluateCondition_coercing(condition, st) ==
    String(st[condition.field]) = String(condition.equals)

evaluateCondition(condition, st) == st[condition.field] = condition.equals

shouldDisplayField(field, st) ==
    IF ~field.hasShowIf THEN TRUE ELSE evaluateCondition(field.showIf, st)

\* String.prototype.toLowerCase, as a table over the spellings of a type
\* that the schemas use; every other type is written in lower case
toLowerCase(type) ==
    CASE type = "Plain Text" -> "plain text"
      [] type \in {"PLAINTEXT", "PlainText"} -> "plaintext"
      [] OTHER -> type

isPlainTextField(field) == toLowerCase(field.type) \in {"plain text", "plaintext"}

getVisibleFields(schema, st, stageIndex) ==
    SelectSeq(SelectSeq(getFields(schema, stageIndex), LAMBDA f : ~isPlainTextField(f)),
              LAMBDA f : shouldDisplayField(f, st))

-----------------------------------------------------------------------------
(* formBuilderBase.js: pure helpers *)

INPUT_EVENT_TYPES ==
    {"text", "textarea", "email", "tel", "number", "date", "search", "url", "password"}

getControllerFields(schema) ==
    {f.showIf.field : f \in {g \in Range(getFields(schema, NotANumber)) : g.hasShowIf}}

-----------------------------------------------------------------------------
(* The engine object.  The operators below take the instance fields as a   *)
(* record e and return the record after the method has run.                *)

Eng == [activeSchema |-> activeSchema, state |-> state, currentStage |-> currentStage,
        furthestStageReached |-> furthestStageReached,
        pendingRenderTimers |-> pendingRenderTimers, isSubmitting |-> isSubmitting,
        dom |-> dom, outstanding |-> outstanding,
        announced |-> "none", posted |-> FALSE, payload |-> {}, draft |-> "none",
        draftState |-> [n \in FieldNames |-> Undefined]]

schemaOf(e) == Schemas[e.activeSchema]

EmptyState == [n \in FieldNames |-> Undefined]

Min(a, b) == IF a < b THEN a ELSE b
Max(a, b) == IF a > b THEN a ELSE b

pruneField_keeps(field, st) == st

\* the body of the forEach of _pruneHiddenFields, for one field
pruneField(field, st) ==
    IF field.hasShowIf /\ st[field.name] # Undefined /\ ~shouldDisplayField(field, st)
    THEN [st EXCEPT ![field.name] = Undefined]
    ELSE st

\* one pass over the fields in declaration order; each test reads the state
\* as the deletions made earlier in the same pass left it
RECURSIVE pruneFrom(_, _)
pruneFrom(fields, st) ==
    IF fields = <<>> THEN st
    ELSE pruneFrom(Tail(fields), pruneField(Head(fields), st))

_pruneHiddenFields_everyConditional(e) ==
    IF e.activeSchema = NullSchema THEN e
    ELSE [e EXCEPT !.state =
             [n \in FieldNames |->
                 IF \E f \in Range(getFields(schemaOf(e), NotANumber)) :
                        f.name = n /\ f.hasShowIf
                 THEN Undefined ELSE e.state[n]]]

_pruneHiddenFields(e) ==
    IF e.activeSchema = NullSchema THEN e
    ELSE [e EXCEPT !.state = pruneFrom(getFields(schemaOf(e), NotANumber), e.state)]

\* Array.prototype.findIndex over the stages, 0-based, -1 when none matches
RECURSIVE findSummaryFrom(_, _)
findSummaryFrom(stages, i) ==
    IF i > Len(stages) THEN -1
    ELSE IF stages[i].type = "summary" THEN i - 1 ELSE findSummaryFrom(stages, i + 1)

_getSummaryStageIndex(e) ==
    IF ~isMultiStage(schemaOf(e)) THEN -1
    ELSE findSummaryFrom(schemaOf(e).stages, 1)

_isSummaryStage(e, stageIndex) ==
    _getSummaryStageIndex(e) # -1 /\ _getSummaryStageIndex(e) = stageIndex

_isOptionalSummaryStage(e) ==
    IF _getSummaryStageIndex(e) = -1 THEN FALSE
    ELSE schemaOf(e).stages[_getSummaryStageIndex(e) + 1].optional

_getLastDataStageIndex(e) ==
    IF ~isMultiStage(schemaOf(e)) THEN 0
    ELSE IF _getSummaryStageIndex(e) = -1 THEN getStageCount(schemaOf(e)) - 1
    ELSE Max(_getSummaryStageIndex(e) - 1, 0)

-----------------------------------------------------------------------------
(* Rendering.  dom records what a render leaves behind:                    *)
(*   view            what the container holds                              *)
(*   formStage       the stageIndex the attached field listeners closed on *)
(*   wrappers        fields that have a control (and a change listener)    *)
(*   inputs          the input, select and textarea elements of the        *)
(*                   container in document order: one per field with a    *)
(*                   control, and one per option for a radio field         *)
(*   inputListeners  fields whose control also has an input listener       *)
(*   blocks          plain-text fields shown as an information block       *)
(*   errors          fields with an error message displayed                *)
(*   controlsHidden  the controls region has display:none                  *)
(*   prevShown, nextShown, submitShown   display of the three buttons      *)
(*   indicatorHidden the stage indicator has the class d-none              *)
(*   steps           number of step buttons in the stage indicator         *)
(*   enabledSteps    the step buttons of the indicator that are not disabled *)
(*   formSignals     AbortController signals of _renderForm not aborted:   *)
(*                   each keeps the field listeners of one render attached *)
(*   indicatorSignals  signals of _updateStageIndicator not aborted: each  *)
(*                   keeps one click listener on the stage indicator       *)
(*   summary         the sections of the summary: a stage index and the    *)
(*                   rows (field name, displayed text) of its list         *)

InitialDom == [view |-> "empty", formStage |-> NotANumber, wrappers |-> {},
               inputs |-> <<>>,
               inputListeners |-> {}, blocks |-> {}, errors |-> {},
               controlsHidden |-> FALSE, indicatorHidden |-> TRUE,
               prevShown |-> TRUE, nextShown |-> TRUE, submitShown |-> TRUE,
               steps |-> 0, enabledSteps |-> {}, formSignals |-> 0,
               indicatorSignals |-> 0, summary |-> <<>>]

\* the options every select and radio field of the schemas above carries
OPTIONS == << [value |-> Str("a"), label |-> "Label A"],
              [value |-> Str("b"), label |-> "Label B"] >>

fieldOptions(field) == IF field.type \in {"select", "radio"} THEN OPTIONS ELSE <<>>

\* the label of the first option whose value is the value, else the value
resolveOptionLabel(field, value) ==
    IF \E i \in 1..Len(fieldOptions(field)) : fieldOptions(field)[i].value = value
    THEN fieldOptions(field)[CHOOSE i \in 1..Len(fieldOptions(field)) :
             /\ fieldOptions(field)[i].value = value
             /\ \A j \in 1..(i - 1) : fieldOptions(field)[j].value # value].label
    ELSE String(value)

\* the placeholder and the yes/no tokens of the summary
emptyValue == "em dash"
YES_TOKEN == "ken"
NO_TOKEN == "lo"

\* the truth value JavaScript gives a value in a condition
truthy(value) == value \notin {Undefined, Null, Str(""), Bool(FALSE)}

formatFieldValue_noPlaceholder(field, value) ==
    IF field.type = "checkbox" THEN (IF truthy(value) THEN YES_TOKEN ELSE NO_TOKEN)
    ELSE IF field.type \in {"select", "radio"} THEN resolveOptionLabel(field, value)
    ELSE String(value)

formatFieldValue(field, value) ==
    IF field.type = "checkbox"
    THEN IF value \in {Undefined, Null, Str("")} THEN emptyValue
         ELSE IF truthy(value) THEN YES_TOKEN ELSE NO_TOKEN
    ELSE IF value \in {Undefined, Null, Str("")} THEN emptyValue
    ELSE IF field.type \in {"select", "radio"} THEN resolveOptionLabel(field, value)
    ELSE String(value)

\* the rows of one section: a term and a detail for each visible field
summaryRows(e, visibleFields) ==
    [i \in 1..Len(visibleFields) |->
        [name |-> visibleFields[i].name,
         text |-> formatFieldValue(visibleFields[i], e.state[visibleFields[i].name])]]

\* the forEach over the stages, from the stage with the 0-based index on
RECURSIVE summarySections(_, _)
summarySections(e, index) ==
    IF index >= Len(schemaOf(e).stages) THEN <<>>
    ELSE IF schemaOf(e).stages[index + 1].type = "summary"
    THEN summarySections(e, index + 1)
    ELSE IF getVisibleFields(schemaOf(e), e.state, Num(index)) = <<>>
    THEN summarySections(e, index + 1)
    ELSE << [stage |-> index,
             rows |-> summaryRows(e, getVisibleFields(schemaOf(e), e.state, Num(index)))] >>
         \o summarySections(e, index + 1)

_renderSummaryStage(e) ==
    [e EXCEPT !.dom.view = "summary", !.dom.wrappers = {}, !.dom.inputs = <<>>,
              !.dom.inputListeners = {}, !.dom.blocks = {}, !.dom.errors = {},
              !.dom.summary = summarySections(e, 0)]

\* the fields of the stage that get a control: displayed and not plain text
renderedFields(e, stageIndex) ==
    {f \in Range(getFields(schemaOf(e), stageIndex)) :
        shouldDisplayField(f, e.state) /\ ~isPlainTextField(f)}

inputListenerFields_all(e, stageIndex) ==
    {f \in renderedFields(e, stageIndex) : f.type \in INPUT_EVENT_TYPES}

\* the controls that also get an "input" listener
inputListenerFields(e, stageIndex) ==
    {f \in renderedFields(e, stageIndex) :
        f.name \in getControllerFields(schemaOf(e)) /\ f.type \in INPUT_EVENT_TYPES}

\* the plain-text fields of the stage that are displayed
infoBlocks(e, stageIndex) ==
    {f \in Range(getFields(schemaOf(e), stageIndex)) :
        shouldDisplayField(f, e.state) /\ isPlainTextField(f)}

\* Scoped ID helpers.  instanceId is that of the first instance made on a
\* root that has neither data-form-builder nor an id
instanceId == "fb-0"
_scopedId(name) == instanceId \o "--" \o name
_fieldId(fieldName) == _scopedId(fieldName)
\* the option values of the schemas hold no white space to replace
_radioOptionId(fieldName, optionValue) ==
    _scopedId(fieldName \o "-" \o String(optionValue))

\* An element is named by a string.  The input, select or textarea of a
\* field is named by the field's name; the radio input of an option by the
\* field's name, "=" and the option's value
radioInput(fieldName, optionValue) == fieldName \o "=" \o String(optionValue)

\* the elements _renderForm makes for the control of a field
fieldInputs(field) ==
    IF field.type = "radio"
    THEN [i \in 1..Len(fieldOptions(field)) |->
             radioInput(field.name, fieldOptions(field)[i].value)]
    ELSE <<field.name>>

RECURSIVE flatMapInputs(_)
flatMapInputs(fields) ==
    IF fields = <<>> THEN <<>>
    ELSE fieldInputs(Head(fields)) \o flatMapInputs(Tail(fields))

\* the controls of the stage in the order in which they are appended
renderedInputs(e, stageIndex) ==
    flatMapInputs(SelectSeq(getFields(schemaOf(e), stageIndex),
                            LAMBDA f : f \in renderedFields(e, stageIndex)))

abortPrevious_skipped(signals) == signals

\* "if (controller) { controller.abort(); controller = null; }": the
\* controller the instance refers to, when there is one, is aborted
abortPrevious(signals) == IF signals > 0 THEN signals - 1 ELSE signals

_renderForm(e, stageIndex) ==
    [e EXCEPT !.dom.view = "form",
              !.dom.formSignals = abortPrevious(@) + 1,
              !.dom.formStage = stageIndex,
              !.dom.wrappers = {f.name : f \in renderedFields(e, stageIndex)},
              !.dom.inputs = renderedInputs(e, stageIndex),
              !.dom.inputListeners = {f.name : f \in inputListenerFields(e, stageIndex)},
              !.dom.blocks = {f.name : f \in infoBlocks(e, stageIndex)},
              !.dom.errors = {}, !.dom.summary = <<>>]

\* an error is attached only where the container has a wrapper for the field
_showErrors(e, errors) == [e EXCEPT !.dom.errors = errors \cap e.dom.wrappers]

stepDisabled_currentOnly(e, stageIndex, index) == index = stageIndex

\* step.disabled of the button made for stage index
stepDisabled(e, stageIndex, index) ==
    IF index = stageIndex THEN TRUE
    ELSE IF index < e.furthestStageReached THEN FALSE
    ELSE IF index = e.furthestStageReached THEN FALSE
    ELSE TRUE

_updateStageIndicator(e, stageIndex) ==
    IF ~isMultiStage(schemaOf(e))
    THEN [e EXCEPT !.dom.steps = 0, !.dom.enabledSteps = {}, !.dom.indicatorHidden = TRUE]
    ELSE [e EXCEPT !.dom.steps = Len(schemaOf(e).stages),
                   !.dom.indicatorHidden = FALSE,
                   !.dom.indicatorSignals = abortPrevious(@) + 1,
                   !.dom.enabledSteps =
                       {index \in 0..(Len(schemaOf(e).stages) - 1) :
                           ~stepDisabled(e, stageIndex, index)}]

multiStageControls_lastStageOnly(e, stageIndex, summaryIndex, lastStageIndex, lastDataStageIndex) ==
    [e EXCEPT !.dom.prevShown = (stageIndex # 0),
              !.dom.nextShown = ~(stageIndex >= lastStageIndex),
              !.dom.submitShown = (stageIndex = lastStageIndex)]

\* the multi-stage branch of _updateNavigationControls
multiStageControls(e, stageIndex, summaryIndex, lastStageIndex, lastDataStageIndex) ==
    IF summaryIndex # -1 /\ stageIndex = summaryIndex
    THEN [e EXCEPT !.dom.prevShown = (stageIndex # 0),
                   !.dom.nextShown = FALSE, !.dom.submitShown = TRUE]
    ELSE IF summaryIndex # -1 /\ stageIndex = lastDataStageIndex
    THEN [e EXCEPT !.dom.prevShown = (stageIndex # 0),
                   !.dom.nextShown = TRUE,
                   !.dom.submitShown = _isOptionalSummaryStage(e)]
    ELSE [e EXCEPT !.dom.prevShown = (stageIndex # 0),
                   !.dom.nextShown = ~(stageIndex >= lastStageIndex),
                   !.dom.submitShown = (stageIndex = lastStageIndex)]

_updateNavigationControls(e, stageIndex) ==
    IF ~isMultiStage(schemaOf(e))
    THEN [e EXCEPT !.dom.prevShown = FALSE, !.dom.nextShown = FALSE,
                   !.dom.submitShown = TRUE]
    ELSE multiStageControls(e, stageIndex, _getSummaryStageIndex(e),
                            getStageCount(schemaOf(e)) - 1, _getLastDataStageIndex(e))

\* Math.min(Math.max(targetIndex, 0), lastIndex)
clampStage_noUpperBound(targetIndex, lastIndex) == Max(targetIndex, 0)
clampStage(targetIndex, lastIndex) == Min(Max(targetIndex, 0), lastIndex)

\* Math.max(this.furthestStageReached, this.currentStage)
advanceFurthest_skipped(furthest, cur) == furthest
advanceFurthest(furthest, cur) == Max(furthest, cur)

unlockOptionalSummary_never(e) == e

\* the optional summary that follows the last data stage is unlocked with it
unlockOptionalSummary(e) ==
    IF _isOptionalSummaryStage(e) /\ e.currentStage = _getLastDataStageIndex(e)
    THEN [e EXCEPT !.furthestStageReached =
                       Max(@, Min(e.currentStage + 1, getStageCount(schemaOf(e)) - 1))]
    ELSE e

\* the navigation state becomes the clamped target
navigateTo(e, cur) ==
    unlockOptionalSummary(
        [e EXCEPT !.currentStage = cur,
                  !.furthestStageReached = advanceFurthest(e.furthestStageReached, cur)])

\* the summary view or the fields of the current stage
renderCurrentStage(e) ==
    IF _isSummaryStage(e, e.currentStage) THEN _renderSummaryStage(e)
    ELSE _renderForm(e, Num(e.currentStage))

\* errors cleared, then the indicator and the controls
renderChrome(e) ==
    _updateNavigationControls(
        _updateStageIndicator(_showErrors(e, {}), e.currentStage), e.currentStage)

\* the stage announcement to the live region, made only on a stage change
announceStageChange(e, previousStage) ==
    IF previousStage # e.currentStage THEN [e EXCEPT !.announced = "stage"] ELSE e

\* _renderStage after the schema check and the pruning pass
renderPruned(e, targetIndex) ==
    IF ~isMultiStage(schemaOf(e))
    THEN renderChrome(_renderForm([e EXCEPT !.currentStage = 0], NotANumber))
    ELSE announceStageChange(
             renderChrome(renderCurrentStage(
                 navigateTo(e, clampStage(targetIndex, getStageCount(schemaOf(e)) - 1)))),
             e.currentStage)

_renderStage(e, stageIndex) ==
    IF e.activeSchema = NullSchema THEN e
    ELSE renderPruned(_pruneHiddenFields(e), IF stageIndex.isNumber THEN stageIndex.n ELSE 0)

\* the container holds the alert and nothing else
containerReplaced(e) ==
    [e EXCEPT !.dom.view = "error", !.dom.wrappers = {}, !.dom.inputs = <<>>,
              !.dom.inputListeners = {},
              !.dom.blocks = {}, !.dom.errors = {}, !.dom.summary = <<>>]

_displaySchemaError(e) == [containerReplaced(e) EXCEPT !.dom.controlsHidden = TRUE]

\* FormPreview.showError: the alert, the controls hidden and the stage
\* indicator hidden with what it holds
showError(e) ==
    [containerReplaced(e) EXCEPT !.dom.controlsHidden = TRUE,
                                 !.dom.indicatorHidden = TRUE]

-----------------------------------------------------------------------------
(* Debounce scheduler.  A timer is [field, stage, origin]; origin is a     *)
(* history mark: "current", or "beforeReset" / "beforeLoad" once a reset   *)
(* or a loadSchema has run while the timer was pending.                    *)

_clearPendingRender_all(e, fieldName) == [e EXCEPT !.pendingRenderTimers = <<>>]

_clearPendingRender(e, fieldName) ==
    [e EXCEPT !.pendingRenderTimers = SelectSeq(@, LAMBDA t : t.field # fieldName)]

\* pendingRenderTimers.set, with the stage index the callback closes on
setTimer(e, stageIndex, fieldName) ==
    [e EXCEPT !.pendingRenderTimers =
        Append(@, [field |-> fieldName,
                   stage |-> IF stageIndex.isNumber THEN stageIndex.n ELSE e.currentStage,
                   origin |-> "current"])]

_scheduleRender_keepsPending(e, stageIndex, fieldName) ==
    setTimer(e, stageIndex, fieldName)

_scheduleRender(e, stageIndex, fieldName) ==
    setTimer(_clearPendingRender(e, fieldName), stageIndex, fieldName)

timerCallback_noRender(e, timer) ==
    [e EXCEPT !.pendingRenderTimers = SelectSeq(@, LAMBDA t : t.field # timer.field)]

\* the setTimeout callback of _scheduleRender
timerCallback(e, timer) ==
    _renderStage([e EXCEPT !.pendingRenderTimers =
                      SelectSeq(@, LAMBDA t : t.field # timer.field)],
                 IF e.activeSchema # NullSchema /\ isMultiStage(schemaOf(e))
                 THEN Num(timer.stage) ELSE NotANumber)

markTimers(timers, mark) ==
    [i \in 1..Len(timers) |->
        [timers[i] EXCEPT !.origin = IF @ = "beforeLoad" THEN @ ELSE mark]]

-----------------------------------------------------------------------------
(* The injected validation policy: any error map over the fields of the    *)
(* validated stage (of the whole schema when no stage is given).           *)

controlNames(fields) == {f.name : f \in {g \in Range(fields) : ~isPlainTextField(g)}}

ErrorMaps(e, stageIndex) ==
    IF e.activeSchema = NullSchema THEN {{}}
    ELSE {errs \in SUBSET controlNames(getFields(schemaOf(e), stageIndex)) :
              Cardinality(errs) <= MaxErrors}

-----------------------------------------------------------------------------
(* Event handlers *)

\* the calls of the draft policy
_saveDraft(e) == [e EXCEPT !.draft = "saved", !.draftState = e.state]

_clearDraft_skipped(e) == e

_clearDraft(e) == [e EXCEPT !.draft = "cleared"]

\* FormPreview.loadSchema; s is NullSchema for an absent schema
loadSchema(e, s) ==
    IF s = NullSchema \/ ~Schemas[s].hasStages
    THEN _displaySchemaError(e)
    ELSE _renderStage([e EXCEPT !.activeSchema = s, !.state = EmptyState,
                                !.currentStage = 0, !.furthestStageReached = 0],
                      Num(0))

\* the announcement that the form was reset replaces what the live region held
announceReset(e) == [e EXCEPT !.announced = "reset"]

_resetForm_keepsFurthest(e) ==
    announceReset(_renderStage(
        [_clearDraft([e EXCEPT !.state = EmptyState]) EXCEPT !.currentStage = 0],
        Num(0)))

_resetForm(e) ==
    announceReset(_renderStage(
        [_clearDraft([e EXCEPT !.state = EmptyState])
            EXCEPT !.currentStage = 0, !.furthestStageReached = 0],
        Num(0)))

prevButtonOnclick(e) ==
    IF e.activeSchema = NullSchema \/ ~isMultiStage(schemaOf(e)) THEN e
    ELSE _renderStage(e, Num(Max(e.currentStage - 1, 0)))

nextButtonOnclick_ignoresErrors(e, errors) ==
    IF e.activeSchema = NullSchema \/ ~isMultiStage(schemaOf(e)) THEN e
    ELSE _renderStage(e, Num(e.currentStage + 1))

\* errors is what _validateStage(this.currentStage) returned
nextButtonOnclick(e, errors) ==
    IF e.activeSchema = NullSchema \/ ~isMultiStage(schemaOf(e)) THEN e
    ELSE IF errors # {} THEN _showErrors(e, errors)
    ELSE _renderStage(e, Num(e.currentStage + 1))

stageIndicatorOnclick_unguarded(e, targetIndex) == _renderStage(e, Num(targetIndex))

\* the step indices for which the click listener goes on to _renderStage
acceptedTargets(e) ==
    {targetIndex \in 0..(e.dom.steps - 1) : ~(targetIndex > e.furthestStageReached)}

\* the click listener of the stage indicator, for a click on step targetIndex
stageIndicatorOnclick(e, targetIndex) ==
    IF targetIndex > e.furthestStageReached THEN e
    ELSE _renderStage(e, Num(targetIndex))

renderAfterChange_skipped(e, stageIndex) == e

\* the render that ends _handleFieldChange
renderAfterChange(e, stageIndex) ==
    _renderStage(e, IF isMultiStage(schemaOf(e))
                    THEN Num(IF stageIndex.isNumber THEN stageIndex.n ELSE e.currentStage)
                    ELSE NotANumber)

_handleFieldChange_keepsTimer(e, stageIndex, fieldName, value) ==
    renderAfterChange(
        _saveDraft(_pruneHiddenFields([e EXCEPT !.state[fieldName] = value])),
        stageIndex)

_handleFieldChange(e, stageIndex, fieldName, value) ==
    renderAfterChange(
        _saveDraft(_pruneHiddenFields(
            [_clearPendingRender(e, fieldName) EXCEPT !.state[fieldName] = value])),
        stageIndex)

_handleFieldInput(e, stageIndex, fieldName, value) ==
    _scheduleRender(_saveDraft(_pruneHiddenFields([e EXCEPT !.state[fieldName] = value])),
                    stageIndex, fieldName)

RECURSIVE findStageOfField(_, _, _)
findStageOfField(stages, i, fieldName) ==
    IF i > Len(stages) THEN -1
    ELSE IF \E f \in Range(stages[i].fields) : f.name = fieldName THEN i - 1
    ELSE findStageOfField(stages, i + 1, fieldName)

_findStageIndexForField(e, fieldName) ==
    IF ~isMultiStage(schemaOf(e)) THEN 0
    ELSE findStageOfField(schemaOf(e).stages, 1, fieldName)

lowestStage_highest(found) ==
    IF found = {} THEN NotANumber
    ELSE Num(CHOOSE i \in found : \A j \in found : i >= j)

\* the reduce of _findFirstErrorStage over the stage indices that were found
lowestStage(found) ==
    IF found = {} THEN NotANumber
    ELSE Num(CHOOSE i \in found : \A j \in found : i <= j)

\* null (NotANumber) for a single-stage schema or when no key is a field of a stage
_findFirstErrorStage(e, errors) ==
    IF ~isMultiStage(schemaOf(e)) THEN NotANumber
    ELSE lowestStage({_findStageIndexForField(e, n) : n \in errors} \ {-1})

\* whole-schema validation failed: move to the first stage with an error
goToFirstErrorStage(e, firstErrorStage) ==
    IF firstErrorStage.isNumber /\ firstErrorStage.n # e.currentStage
    THEN _renderStage(e, firstErrorStage)
    ELSE e

\* the payload as the set of its <<name, value>> entries
_buildSubmissionPayload(e) ==
    {<<f.name, e.state[f.name]>> :
        f \in {g \in Range(getVisibleFields(schemaOf(e), e.state, NotANumber)) :
                   e.state[g.name] # Undefined}}

\* the call of _postPayload: one more promise outstanding
_postPayload(e, payload) ==
    [e EXCEPT !.outstanding = @ + 1, !.posted = TRUE, !.payload = payload]

\* _handleSubmit from the pruning pass on; errors is what _validateStage() returned
submitPruned(e, errors) ==
    IF errors # {}
    THEN _showErrors(goToFirstErrorStage(e, _findFirstErrorStage(e, errors)), errors)
    ELSE _postPayload(e, _buildSubmissionPayload(e))

\* stageErrors is the result of _validateStage(this.currentStage), errors that
\* of _validateStage(); each is read only where the code makes the call
_handleSubmit(e, stageErrors, errors) ==
    IF e.activeSchema = NullSchema THEN e
    ELSE IF e.isSubmitting THEN e
    ELSE IF isMultiStage(schemaOf(e)) /\ stageErrors # {} THEN _showErrors(e, stageErrors)
    ELSE submitPruned(_pruneHiddenFields(e), errors)

\* the promise returned by _postPayload settles with success (true or false);
\* the value is dropped and nothing follows the await
postPayloadSettled(e, success) == [e EXCEPT !.outstanding = @ - 1]

-----------------------------------------------------------------------------
(* The record of the last operation and the commit of a handler's result *)

\* lastOp: the handler, the index it was asked for, whether its guard or
\* validation let it proceed, the error map it was given, the timer's origin,
\* the field and value of a field event, the validation that failed in a
\* submit ("stage", "schema" or "none"); then what the handler emitted: the
\* last announcement it made to the live region ("stage", "reset" or "none"),
\* a _postPayload call and the payload it was given, the last call it made
\* to the draft policy ("saved", "cleared" or "none") and the state that
\* _saveDraft was last called with (draftState).  pending is the number
\* of timers that were pending for the field of a field event
Op(name, k, ok, errs, origin) ==
    [op |-> name, k |-> k, ok |-> ok, errs |-> errs, origin |-> origin,
     field |-> "", value |-> Undefined, failed |-> "none",
     pending |-> 0, announced |-> "none", posted |-> FALSE, payload |-> {},
     draft |-> "none", draftState |-> EmptyState]

\* the same for an event on the control of a field, with the value it carried
FieldOp(name, k, ok, fieldName, value, pending) ==
    [Op(name, k, ok, {}, "current") EXCEPT !.field = fieldName, !.value = value,
                                           !.pending = pending]

\* a submit from stage k, given what the two validation calls return
SubmitOp(name, k, isMulti, stageErrors, errors) ==
    [Op(name, k, stageErrors = {} /\ errors = {}, stageErrors \cup errors, "current")
        EXCEPT !.failed = IF isMulti /\ stageErrors # {} THEN "stage"
                          ELSE IF errors # {} THEN "schema" ELSE "none"]

-----------------------------------------------------------------------------
(* Focus continuity.  An element is named by a string: the control of a    *)
(* field as in the rendering section (its id is the scoped field id and    *)
(* its name the field's name; a radio input has the id of its option and   *)
(* the scoped field id as its name), the four buttons of the controls      *)
(* region (no id, no name), the step buttons of the stage indicator        *)
(* (inside the root, outside the form's scope), "outside" for an element   *)
(* outside the root and "body" when no element has focus.  A focus target  *)
(* is [id, name, version] with "" for a null id or name; isNull marks a    *)
(* null target.  The record focus holds focusVersion,                      *)
(* lastStageFocusTarget, document.activeElement and, per field, the target *)
(* that the field's pending timer captured.  tracked is FALSE in the       *)
(* specifications that leave focus out.  Two history fields describe the   *)
(* last render that kept the stage: stale, that it was given a target of   *)
(* another version, and restored, the target it passed to _restoreFocus    *)
(* ("captured", "last" or "none").                                         *)

NoTarget == [isNull |-> TRUE, id |-> "", name |-> "", version |-> 0]

ControlButtons == {"prev", "next", "submit", "reset"}

\* the button of the stage indicator made for stage index
stepButton(index) == "step" \o ToString(index)

StepButtons ==
    UNION {{stepButton(index) : index \in 0..(Len(Schemas[s].stages) - 1)} :
              s \in 1..Len(Schemas)}

\* the radio inputs a field of the schemas can have, with the field and the
\* option value of each
RadioInputs ==
    {[el |-> radioInput(n, OPTIONS[i].value), field |-> n, value |-> OPTIONS[i].value] :
        n \in FieldNames, i \in 1..Len(OPTIONS)}

isRadio(el) == \E r \in RadioInputs : r.el = el
radioOf(el) == CHOOSE r \in RadioInputs : r.el = el

\* the elements a container can hold
FieldInputs == FieldNames \cup {r.el : r \in RadioInputs}

NoFocus == [tracked |-> FALSE, focusVersion |-> 0, lastStageFocusTarget |-> NoTarget,
            activeElement |-> "body", timerTargets |-> [n \in FieldNames |-> NoTarget],
            stale |-> FALSE, restored |-> "none"]

\* element.id and element.getAttribute("name"); "" where there is none
elementId(el) ==
    IF el \in FieldNames THEN _fieldId(el)
    ELSE IF isRadio(el) THEN _radioOptionId(radioOf(el).field, radioOf(el).value)
    ELSE ""
elementName(el) ==
    IF el \in FieldNames THEN el
    ELSE IF isRadio(el) THEN _scopedId(radioOf(el).field)
    ELSE ""

\* radio.checked: set by the render from the state, and by the click that
\* the change handler answers with a render
radioChecked(e, el) == isRadio(el) /\ e.state[radioOf(el).field] = radioOf(el).value

_isElementInScope(el) == el \in FieldInputs \cup ControlButtons

\* isElementVisible for an element of the root, given what the last render
\* left
isElementVisible(d, el) ==
    IF el \in FieldInputs THEN el \in Range(d.inputs)
    ELSE IF el = "prev" THEN ~d.controlsHidden /\ d.prevShown
    ELSE IF el = "next" THEN ~d.controlsHidden /\ d.nextShown
    ELSE IF el = "submit" THEN ~d.controlsHidden /\ d.submitShown
    ELSE IF el = "reset" THEN ~d.controlsHidden
    ELSE IF el \in StepButtons
    THEN ~d.indicatorHidden /\ \E index \in 0..(d.steps - 1) : stepButton(index) = el
    ELSE FALSE

_isActiveElementInScope(f, d) ==
    _isElementInScope(f.activeElement) /\ isElementVisible(d, f.activeElement)

_getFocusTargetFromElement(f, el) ==
    [isNull |-> FALSE, id |-> elementId(el), name |-> elementName(el),
     version |-> f.focusVersion]

_getActiveFocusTarget(f) == _getFocusTargetFromElement(f, f.activeElement)

\* the controls of the container in document order, then the visible
\* buttons of the controls region
_getStageFocusableElements(e) ==
    e.dom.inputs \o SelectSeq(<<"prev", "next", "submit", "reset">>,
                              LAMBDA b : isElementVisible(e.dom, b))

\* the focusin listener of the root
focusinListener(f, el) ==
    [f EXCEPT !.focusVersion = @ + 1,
              !.lastStageFocusTarget =
                  IF _isElementInScope(el)
                  THEN _getFocusTargetFromElement([f EXCEPT !.focusVersion = @ + 1], el)
                  ELSE NoTarget]

\* element.focus() on an element of the root: nothing happens when the
\* element has the focus already
elementFocus(f, el) ==
    IF f.activeElement = el THEN f
    ELSE focusinListener([f EXCEPT !.activeElement = el], el)

\* Array.prototype.findIndex, 0-based; -1 is "not found".  hits tells of
\* each element of the array whether the callback accepts it
findIndex(hits) ==
    IF \E i \in 1..Len(hits) : hits[i]
    THEN (CHOOSE i \in 1..Len(hits) : hits[i] /\ \A j \in 1..(i - 1) : ~hits[j]) - 1
    ELSE -1

\* querySelector over the controls of the container: the first match in
\* document order, "" for null.  Of the elements of the root only these
\* have an id that a focus target can hold
querySelectorById(d, id) ==
    IF findIndex([i \in 1..Len(d.inputs) |-> elementId(d.inputs[i]) = id]) = -1 THEN ""
    ELSE d.inputs[findIndex([i \in 1..Len(d.inputs) |-> elementId(d.inputs[i]) = id]) + 1]
querySelectorByName(d, name) ==
    IF findIndex([i \in 1..Len(d.inputs) |-> elementName(d.inputs[i]) = name]) = -1 THEN ""
    ELSE d.inputs[findIndex([i \in 1..Len(d.inputs) |->
                                elementName(d.inputs[i]) = name]) + 1]

_restoreFocus(f, d, target) ==
    IF target.isNull THEN f
    ELSE IF target.id # "" /\ querySelectorById(d, target.id) # ""
            /\ isElementVisible(d, querySelectorById(d, target.id))
    THEN elementFocus(f, querySelectorById(d, target.id))
    ELSE IF target.name # "" /\ querySelectorByName(d, target.name) # ""
            /\ isElementVisible(d, querySelectorByName(d, target.name))
    THEN elementFocus(f, querySelectorByName(d, target.name))
    ELSE f

_focusFirstStageElement(f, e) ==
    IF _getStageFocusableElements(e) = <<>> THEN f
    ELSE elementFocus(f, Head(_getStageFocusableElements(e)))

\* Array.prototype.indexOf over the focusable elements, 0-based
focusableIndexOf(focusables, el) ==
    findIndex([i \in 1..Len(focusables) |-> focusables[i] = el])

\* the three lookups of resolveFocusableIndex by the fallback target
idIndex(focusables, id) ==
    findIndex([i \in 1..Len(focusables) |-> elementId(focusables[i]) = id])
nameMatchIndex(e, focusables, name) ==
    findIndex([i \in 1..Len(focusables) |->
                  /\ elementName(focusables[i]) = name
                  /\ isRadio(focusables[i]) => radioChecked(e, focusables[i])])
anyNameIndex(focusables, name) ==
    findIndex([i \in 1..Len(focusables) |-> elementName(focusables[i]) = name])

\* e gives the checked state of the radio inputs
resolveFocusableIndex(e, focusables, activeElement, fallbackTarget) ==
    IF focusableIndexOf(focusables, activeElement) # -1
    THEN [index |-> focusableIndexOf(focusables, activeElement), source |-> "active"]
    ELSE IF ~fallbackTarget.isNull /\ fallbackTarget.id # ""
            /\ idIndex(focusables, fallbackTarget.id) # -1
    THEN [index |-> idIndex(focusables, fallbackTarget.id), source |-> "fallback"]
    ELSE IF ~fallbackTarget.isNull /\ fallbackTarget.name # ""
            /\ nameMatchIndex(e, focusables, fallbackTarget.name) # -1
    THEN [index |-> nameMatchIndex(e, focusables, fallbackTarget.name),
          source |-> "fallback"]
    ELSE IF ~fallbackTarget.isNull /\ fallbackTarget.name # ""
            /\ anyNameIndex(focusables, fallbackTarget.name) # -1
    THEN [index |-> anyNameIndex(focusables, fallbackTarget.name), source |-> "fallback"]
    ELSE [index |-> -1, source |-> "none"]

\* the branch of _handleStageTabCycle for a resolved index that is not the
\* active element's
tabFromResolved(f, focusables, index, shiftKey) ==
    elementFocus(f, focusables[
        (IF shiftKey
         THEN (IF index > 0 THEN index - 1 ELSE Len(focusables) - 1)
         ELSE (IF index < Len(focusables) - 1 THEN index + 1 ELSE 0)) + 1])

tabWrap_never(f, focusables, isActiveInScope, shiftKey) ==
    [prevented |-> FALSE, focus |-> f]

\* the last two branches of _handleStageTabCycle
tabWrap(f, focusables, isActiveInScope, shiftKey) ==
    IF shiftKey
    THEN (IF ~isActiveInScope \/ f.activeElement = focusables[1]
          THEN [prevented |-> TRUE, focus |-> elementFocus(f, focusables[Len(focusables)])]
          ELSE [prevented |-> FALSE, focus |-> f])
    ELSE (IF ~isActiveInScope \/ f.activeElement = focusables[Len(focusables)]
          THEN [prevented |-> TRUE, focus |-> elementFocus(f, focusables[1])]
          ELSE [prevented |-> FALSE, focus |-> f])

\* the keydown listener of the root for the Tab key: whether the default
\* was prevented, and the focus it left
_handleStageTabCycle(f, e, shiftKey) ==
    IF ~_isActiveElementInScope(f, e.dom) THEN [prevented |-> FALSE, focus |-> f]
    ELSE IF _getStageFocusableElements(e) = <<>> THEN [prevented |-> FALSE, focus |-> f]
    ELSE IF resolveFocusableIndex(e, _getStageFocusableElements(e), f.activeElement,
                                  f.lastStageFocusTarget).index # -1
            /\ focusableIndexOf(_getStageFocusableElements(e), f.activeElement) = -1
    THEN [prevented |-> TRUE,
          focus |-> tabFromResolved(f, _getStageFocusableElements(e),
                        resolveFocusableIndex(e, _getStageFocusableElements(e),
                                              f.activeElement,
                                              f.lastStageFocusTarget).index, shiftKey)]
    ELSE tabWrap(f, _getStageFocusableElements(e),
                 focusableIndexOf(_getStageFocusableElements(e), f.activeElement) # -1,
                 shiftKey)

\* a focused element that leaves the document or is no longer displayed
\* leaves the focus on the body, without a focus event
blurred(f) == [f EXCEPT !.activeElement = "body"]

\* _renderStage fills the container and the indicator anew and sets the
\* display of the buttons
domReplaced(f, d) ==
    IF f.activeElement \in FieldInputs \cup StepButtons THEN blurred(f)
    ELSE IF f.activeElement \in ControlButtons /\ ~isElementVisible(d, f.activeElement)
    THEN blurred(f)
    ELSE f

\* _displaySchemaError and showError fill the container anew and hide the
\* controls; showError hides the indicator too, _displaySchemaError leaves
\* it and its buttons as they are
errorReplaced(f, d) ==
    IF f.activeElement \in FieldInputs THEN blurred(f)
    ELSE IF f.activeElement \in ControlButtons \cup StepButtons
            /\ ~isElementVisible(d, f.activeElement)
    THEN blurred(f)
    ELSE f

\* the focus part of a render that kept the stage
staleTarget(f, target) == ~target.isNull /\ target.version # f.focusVersion

restoreAfterRender_ignoresVersion(f, e, restoreFocusTarget) ==
    IF ~restoreFocusTarget.isNull
    THEN _restoreFocus([f EXCEPT !.stale = staleTarget(f, restoreFocusTarget),
                                 !.restored = "captured"],
                       e.dom, restoreFocusTarget)
    ELSE IF ~_isActiveElementInScope(f, e.dom) /\ ~f.lastStageFocusTarget.isNull
    THEN _restoreFocus([f EXCEPT !.stale = FALSE, !.restored = "last"],
                       e.dom, f.lastStageFocusTarget)
    ELSE [f EXCEPT !.stale = FALSE, !.restored = "none"]

restoreAfterRender(f, e, restoreFocusTarget) ==
    IF ~restoreFocusTarget.isNull /\ restoreFocusTarget.version = f.focusVersion
    THEN _restoreFocus([f EXCEPT !.stale = FALSE, !.restored = "captured"],
                       e.dom, restoreFocusTarget)
    ELSE IF ~_isActiveElementInScope(f, e.dom) /\ ~f.lastStageFocusTarget.isNull
    THEN _restoreFocus([f EXCEPT !.stale = staleTarget(f, restoreFocusTarget),
                                 !.restored = "last"],
                       e.dom, f.lastStageFocusTarget)
    ELSE [f EXCEPT !.stale = staleTarget(f, restoreFocusTarget), !.restored = "none"]

\* the focus part of a render that changed the stage
focusAfterStageChange(f, e, focusOnChange) ==
    IF focusOnChange
    THEN _focusFirstStageElement([f EXCEPT !.lastStageFocusTarget = NoTarget], e)
    ELSE [f EXCEPT !.lastStageFocusTarget = NoTarget]

\* the focus part of _renderStage; e is the engine after the render and
\* previousStage is this.currentStage as the render found it
renderFocus(f, e, previousStage, restoreFocusTarget, focusOnChange) ==
    IF ~isMultiStage(schemaOf(e)) \/ previousStage = e.currentStage
    THEN restoreAfterRender(domReplaced(f, e.dom), e, restoreFocusTarget)
    ELSE focusAfterStageChange(domReplaced(f, e.dom), e, focusOnChange)

\* focus after the handler recorded by op has run; e is the engine it left.
\* Without a schema no handler renders
focusAfter(f, e, op) ==
    IF op.op \in {"loadInvalid", "showError"} THEN errorReplaced(f, e.dom)
    ELSE IF e.activeSchema = NullSchema THEN f
    ELSE IF op.op = "loadSchema" THEN renderFocus(f, e, 0, NoTarget, FALSE)
    ELSE IF op.op = "reset" THEN renderFocus(f, e, 0, NoTarget, TRUE)
    ELSE IF op.op = "prev"
    THEN (IF isMultiStage(schemaOf(e))
          THEN renderFocus(f, e, currentStage, NoTarget, TRUE) ELSE f)
    ELSE IF op.op \in {"next", "jump"}
    THEN (IF isMultiStage(schemaOf(e)) /\ op.ok
          THEN renderFocus(f, e, currentStage, NoTarget, TRUE) ELSE f)
    ELSE IF op.op = "change"
    THEN renderFocus([f EXCEPT !.timerTargets[op.field] = NoTarget], e, currentStage,
                     _getActiveFocusTarget(f), FALSE)
    ELSE IF op.op = "input"
    THEN (IF op.ok THEN [f EXCEPT !.timerTargets[op.field] = _getActiveFocusTarget(f)]
          ELSE f)
    ELSE IF op.op = "timer"
    THEN renderFocus([f EXCEPT !.timerTargets[Head(pendingRenderTimers).field] = NoTarget],
                     e, currentStage,
                     f.timerTargets[Head(pendingRenderTimers).field], FALSE)
    ELSE IF op.op \in {"submit", "formSubmit"}
    THEN (IF e.currentStage # currentStage
          THEN renderFocus(f, e, currentStage, NoTarget, TRUE) ELSE f)
    ELSE f

Commit(e) ==
    /\ activeSchema' = e.activeSchema
    /\ state' = e.state
    /\ currentStage' = e.currentStage
    /\ furthestStageReached' = e.furthestStageReached
    /\ pendingRenderTimers' = e.pendingRenderTimers
    /\ isSubmitting' = e.isSubmitting
    /\ dom' = e.dom
    /\ outstanding' = e.outstanding
    /\ schemaManager' = schemaManager

\* the handler returned with the engine as e
Done(e, op) ==
    /\ Commit(e)
    /\ lastOp' = [op EXCEPT !.announced = e.announced, !.posted = e.posted,
                            !.payload = e.payload, !.draft = e.draft,
                            !.draftState = e.draftState]
    /\ focus' = IF focus.tracked THEN focusAfter(focus, e, op) ELSE focus
    /\ focus'.focusVersion <= MaxFocusVersion

-----------------------------------------------------------------------------
(* SchemaManager (schemaEditor.js).  A stage is [id, fields] and a field   *)
(* is [name], the name being a string value, or Undefined where the field  *)
(* object has no name property.  The label of a stage and the type of a    *)
(* field are read by the guards of addStage and addField and by nothing    *)
(* else, and are not kept.  loadedSchema is a history field: the schema    *)
(* was last replaced by loadSchema rather than built from the empty one.   *)
(* An operation that throws leaves the manager as it was: every throw      *)
(* precedes the first write.                                               *)

\* the constructor
NewManager ==
    [schema |-> [id |-> "new-form", stages |-> <<>>, fields |-> <<>>],
     hasUnsavedChanges |-> FALSE, loadedSchema |-> FALSE]

\* what the editor's forms are filled with: an input may be left empty
StageIdInputs == {"", "s1", "s2"}
LabelInputs == {"", "Stage"}
FieldNameInputs == {Str(""), Str("a"), Str("b")}
TypeInputs == {"", "text"}
SchemaIdInputs == {"my-form"}

\* what loadSchema is given: no object, an object without id or stages, and
\* a file whose two stages share their id and their field's name
NoSchemaData == [isObject |-> FALSE, id |-> "", stages |-> <<>>]
SchemaDataInputs ==
    { NoSchemaData,
      [isObject |-> TRUE, id |-> "", stages |-> <<>>],
      [isObject |-> TRUE, id |-> "x",
       stages |-> << [id |-> "s1", fields |-> << [name |-> Str("a")] >>],
                     [id |-> "s1", fields |-> << [name |-> Str("a")] >>] >>] }

\* Array.prototype.findIndex over the stages by id, 1-based; 0 is "not found"
stageIndexOf(stages, stageId) ==
    IF \E i \in 1..Len(stages) : stages[i].id = stageId
    THEN CHOOSE i \in 1..Len(stages) :
            stages[i].id = stageId /\ \A j \in 1..(i - 1) : stages[j].id # stageId
    ELSE 0

\* Array.prototype.findIndex over fields by name, 1-based; 0 is "not found"
fieldIndexOf(fields, fieldName) ==
    IF \E i \in 1..Len(fields) : fields[i].name = fieldName
    THEN CHOOSE i \in 1..Len(fields) :
            fields[i].name = fieldName /\ \A j \in 1..(i - 1) : fields[j].name # fieldName
    ELSE 0

\* array.splice(index, 1) and array.splice(index, 0, item), index 0-based
spliceOut(arr, index) == SubSeq(arr, 1, index) \o SubSeq(arr, index + 2, Len(arr))
spliceIn(arr, index, item) ==
    SubSeq(arr, 1, index) \o <<item>> \o SubSeq(arr, index + 1, Len(arr))

updateFlattenedFields(m) ==
    [m EXCEPT !.schema.fields = flatMapFields(m.schema.stages)]

markAsChanged(m) == [m EXCEPT !.hasUnsavedChanges = TRUE]

\* the tail every stage and field operation ends with
flattenAndMark(m) == markAsChanged(updateFlattenedFields(m))

\* the selection fields it also resets are not part of the model
createNewSchema(m) ==
    [m EXCEPT !.schema = [id |-> "new-form", stages |-> <<>>, fields |-> <<>>],
              !.loadedSchema = FALSE]

\* "schemaData.id || 'imported-form'", "schemaData.stages || []"
loadManagerSchema(m, schemaData) ==
    IF ~schemaData.isObject THEN m
    ELSE updateFlattenedFields(
             [m EXCEPT !.schema = [id |-> IF schemaData.id = "" THEN "imported-form"
                                          ELSE schemaData.id,
                                   stages |-> schemaData.stages,
                                   fields |-> <<>>],
                       !.loadedSchema = TRUE])

updateSchemaId(m, id) == markAsChanged([m EXCEPT !.schema.id = id])

\* localStorage.setItem may throw (quota, storage disabled): the catch
\* leaves the flag as it was
saveToLocalStorage(m, stored) ==
    IF stored THEN [m EXCEPT !.hasUnsavedChanges = FALSE] ELSE m

addStage(m, id, label) ==
    IF id = "" \/ label = "" THEN m
    ELSE IF stageIndexOf(m.schema.stages, id) # 0 THEN m
    ELSE flattenAndMark([m EXCEPT !.schema.stages =
                            Append(@, [id |-> id, fields |-> <<>>])])

editStage(m, stageId, updatesId) ==
    IF stageIndexOf(m.schema.stages, stageId) = 0 THEN m
    ELSE IF updatesId # "" /\ updatesId # stageId
            /\ stageIndexOf(m.schema.stages, updatesId) # 0 THEN m
    ELSE flattenAndMark([m EXCEPT
            !.schema.stages[stageIndexOf(m.schema.stages, stageId)].id = updatesId])

deleteStage(m, stageId) ==
    IF stageIndexOf(m.schema.stages, stageId) = 0 THEN m
    ELSE flattenAndMark([m EXCEPT !.schema.stages =
                            spliceOut(@, stageIndexOf(@, stageId) - 1)])

\* the while loop of duplicateStage that looks for a free id
RECURSIVE freeStageId(_, _, _, _)
freeStageId(stages, id, newId, counter) ==
    IF stageIndexOf(stages, newId) # 0
    THEN freeStageId(stages, id, id \o "-copy-" \o ToString(counter + 1), counter + 1)
    ELSE newId

duplicatedStageId(m, stageId) ==
    freeStageId(m.schema.stages, stageId, stageId \o "-copy", 1)

\* the copy keeps the fields' names
duplicateStage(m, stageId) ==
    IF stageIndexOf(m.schema.stages, stageId) = 0 THEN m
    ELSE flattenAndMark([m EXCEPT !.schema.stages =
            spliceIn(@, stageIndexOf(@, stageId),
                     [id |-> duplicatedStageId(m, stageId),
                      fields |-> @[stageIndexOf(@, stageId)].fields])])

reorderStages_notFlattened(m, fromIndex, toIndex) ==
    IF fromIndex < 0 \/ fromIndex >= Len(m.schema.stages)
       \/ toIndex < 0 \/ toIndex >= Len(m.schema.stages) THEN m
    ELSE markAsChanged([m EXCEPT !.schema.stages =
            spliceIn(spliceOut(@, fromIndex), toIndex, @[fromIndex + 1])])

reorderStages(m, fromIndex, toIndex) ==
    IF fromIndex < 0 \/ fromIndex >= Len(m.schema.stages)
       \/ toIndex < 0 \/ toIndex >= Len(m.schema.stages) THEN m
    ELSE flattenAndMark([m EXCEPT !.schema.stages =
            spliceIn(spliceOut(@, fromIndex), toIndex, @[fromIndex + 1])])

\* cleanFieldData, for the name: a property holding '' or undefined is
\* deleted from the copy
cleanFieldData(name) == IF name = Str("") THEN Undefined ELSE name

addField(m, stageId, name, type) ==
    IF stageIndexOf(m.schema.stages, stageId) = 0 THEN m
    ELSE IF name \in {Str(""), Undefined} \/ type = "" THEN m
    ELSE IF fieldIndexOf(m.schema.fields, name) # 0 THEN m
    ELSE flattenAndMark([m EXCEPT
            !.schema.stages[stageIndexOf(m.schema.stages, stageId)].fields =
                Append(@, [name |-> cleanFieldData(name)])])

editField(m, stageId, originalFieldName, name) ==
    IF stageIndexOf(m.schema.stages, stageId) = 0 THEN m
    ELSE IF fieldIndexOf(m.schema.stages[stageIndexOf(m.schema.stages, stageId)].fields,
                         originalFieldName) = 0 THEN m
    ELSE IF name # originalFieldName /\ fieldIndexOf(m.schema.fields, name) # 0 THEN m
    ELSE flattenAndMark([m EXCEPT
            !.schema.stages[stageIndexOf(m.schema.stages, stageId)].fields =
                [@ EXCEPT ![fieldIndexOf(@, originalFieldName)] =
                              [name |-> cleanFieldData(name)]]])

deleteField(m, stageId, fieldName) ==
    IF stageIndexOf(m.schema.stages, stageId) = 0 THEN m
    ELSE IF fieldIndexOf(m.schema.stages[stageIndexOf(m.schema.stages, stageId)].fields,
                         fieldName) = 0 THEN m
    ELSE flattenAndMark([m EXCEPT
            !.schema.stages[stageIndexOf(m.schema.stages, stageId)].fields =
                spliceOut(@, fieldIndexOf(@, fieldName) - 1)])

\* the while loop of duplicateField that looks for a free name; name and
\* newName are the strings of the template literals
RECURSIVE freeFieldName(_, _, _, _)
freeFieldName(fields, name, newName, counter) ==
    IF fieldIndexOf(fields, Str(newName)) # 0
    THEN freeFieldName(fields, name, name \o "_copy_" \o ToString(counter + 1), counter + 1)
    ELSE newName

\* `${field.name}_copy`: a field without a name gives "undefined_copy"
duplicatedFieldName(m, fieldName) ==
    freeFieldName(m.schema.fields, String(fieldName), String(fieldName) \o "_copy", 1)

duplicateField(m, stageId, fieldName) ==
    IF stageIndexOf(m.schema.stages, stageId) = 0 THEN m
    ELSE IF fieldIndexOf(m.schema.stages[stageIndexOf(m.schema.stages, stageId)].fields,
                         fieldName) = 0 THEN m
    ELSE flattenAndMark([m EXCEPT
            !.schema.stages[stageIndexOf(m.schema.stages, stageId)].fields =
                spliceIn(@, fieldIndexOf(@, fieldName),
                         [name |-> Str(duplicatedFieldName(m, fieldName))])])

reorderFields(m, stageId, fromIndex, toIndex) ==
    IF stageIndexOf(m.schema.stages, stageId) = 0 THEN m
    ELSE IF fromIndex < 0
            \/ fromIndex >= Len(m.schema.stages[stageIndexOf(m.schema.stages, stageId)].fields)
            \/ toIndex < 0
            \/ toIndex >= Len(m.schema.stages[stageIndexOf(m.schema.stages, stageId)].fields)
         THEN m
    ELSE flattenAndMark([m EXCEPT
            !.schema.stages[stageIndexOf(m.schema.stages, stageId)].fields =
                spliceIn(spliceOut(@, fromIndex), toIndex, @[fromIndex + 1])])

-----------------------------------------------------------------------------
(* The state machine of the engine *)

loaded == activeSchema # NullSchema
multi == loaded /\ isMultiStage(Schemas[activeSchema])
lastStage == getStageCount(Schemas[activeSchema]) - 1

InitEngine ==
    /\ activeSchema = NullSchema
    /\ state = EmptyState
    /\ currentStage = 0
    /\ furthestStageReached = 0
    /\ pendingRenderTimers = <<>>
    /\ isSubmitting = FALSE
    /\ dom = InitialDom
    /\ outstanding = 0
    /\ validated = {}
    /\ schemaManager = NewManager
    /\ lastOp = Op("init", 0, TRUE, {}, "current")

Init == InitEngine /\ focus = NoFocus

\* the history variable validated is kept only by the specifications that
\* track it; the others leave it at its initial value
Validated(track, value) == validated' = IF track THEN value ELSE validated

\* the schemas loadSchema accepts
validSchema(s) == s # NullSchema /\ Schemas[s].hasStages

\* the specification that tracks validated loads the schemas that have a
\* stage to move past (or none at all): a form of one stage has no gate
GateSchemaIds == {s \in SchemaIds : Len(Schemas[s].stages) # 1}

LoadSchema(track) ==
    \E s \in (IF track THEN GateSchemaIds ELSE SchemaIds) \cup {NullSchema} :
        /\ Done([loadSchema(Eng, s) EXCEPT !.pendingRenderTimers =
                     IF validSchema(s) THEN markTimers(@, "beforeLoad") ELSE @],
                Op(IF validSchema(s) THEN "loadSchema" ELSE "loadInvalid",
                   s, validSchema(s), {}, "current"))
        /\ Validated(track, IF validSchema(s) THEN {} ELSE validated)

Reset(track) ==
    /\ ~dom.controlsHidden
    /\ Done([_resetForm(Eng) EXCEPT !.pendingRenderTimers = markTimers(@, "beforeReset")],
            Op("reset", 0, TRUE, {}, "current"))
    /\ Validated(track, {})

\* errors is what the validation policy holds for the current stage; the
\* handler does not ask for it
Prev(track) ==
    /\ ~dom.controlsHidden /\ dom.prevShown
    /\ \E errors \in ErrorMaps(Eng, Num(currentStage)) :
         Done(prevButtonOnclick(Eng), Op("prev", 0, TRUE, errors, "current"))
    /\ Validated(track, validated)

\* k records furthestStageReached as the click found it
NextStage(track) ==
    /\ ~dom.controlsHidden /\ dom.nextShown
    /\ \E errors \in ErrorMaps(Eng, Num(currentStage)) :
         /\ Done(nextButtonOnclick(Eng, errors),
                 Op("next", furthestStageReached, errors = {}, errors, "current"))
         /\ Validated(track, IF activeSchema # NullSchema /\ isMultiStage(schemaOf(Eng))
                                 /\ errors = {}
                              THEN validated \cup {currentStage} ELSE validated)

\* the editor's preview calls showError when its schema has no stage
ShowError(track) ==
    /\ Done(showError(Eng), Op("showError", 0, TRUE, {}, "current"))
    /\ Validated(track, validated)

\* a click on a step button of the displayed indicator
Jump(track) ==
    /\ ~dom.indicatorHidden
    /\ \E k \in 0..(dom.steps - 1) :
        /\ Done(stageIndicatorOnclick(Eng, k),
                Op("jump", k, k <= furthestStageReached, {}, "current"))
        /\ Validated(track, validated)

fieldNamed(e, stageIndex, fieldName) ==
    CHOOSE f \in Range(getFields(schemaOf(e), stageIndex)) : f.name = fieldName

\* the number of timers pending for the field
pendingFor(timers, fieldName) ==
    Cardinality({i \in 1..Len(timers) : timers[i].field = fieldName})

\* the fields whose showIf names fieldName and that hold a value
valuedDependents(e, fieldName) ==
    {f \in Range(getFields(schemaOf(e), NotANumber)) :
        f.hasShowIf /\ f.showIf.field = fieldName /\ e.state[f.name] # Undefined}

\* k records how many dependents of the field held a value
FieldChange(track) ==
    /\ dom.view = "form"
    /\ \E fieldName \in dom.wrappers :
         \E value \in EventValues(fieldNamed(Eng, dom.formStage, fieldName).type) :
            Done(_handleFieldChange(Eng, dom.formStage, fieldName, value),
                 FieldOp("change", Cardinality(valuedDependents(Eng, fieldName)),
                         TRUE, fieldName, value,
                         pendingFor(pendingRenderTimers, fieldName)))
    /\ Validated(track, validated)

\* the rendered controls a keystroke produces an "input" event on
typingFields(e) ==
    {n \in e.dom.wrappers : fieldNamed(e, e.dom.formStage, n).type \in INPUT_EVENT_TYPES}

\* an "input" event on a control: the listener runs where one was attached,
\* and nothing runs where none was.  k records the timers that were pending
\* for the field, ok whether the control had the listener
inputEvent(e, stageIndex, fieldName, value) ==
    IF fieldName \in e.dom.inputListeners
    THEN _handleFieldInput(e, stageIndex, fieldName, value)
    ELSE e

FieldInput(track) ==
    /\ dom.view = "form"
    /\ \E fieldName \in typingFields(Eng) :
         \E value \in EventValues(fieldNamed(Eng, dom.formStage, fieldName).type) :
            Done(inputEvent(Eng, dom.formStage, fieldName, value),
                 FieldOp("input", pendingFor(pendingRenderTimers, fieldName),
                         fieldName \in dom.inputListeners, fieldName, value,
                         pendingFor(pendingRenderTimers, fieldName)))
    /\ Validated(track, validated)

TimerFire(track) ==
    /\ pendingRenderTimers # <<>>
    /\ Done(timerCallback(Eng, Head(pendingRenderTimers)),
            Op("timer", Head(pendingRenderTimers).stage, TRUE, {},
               Head(pendingRenderTimers).origin))
    /\ Validated(track, validated)

Submit(track) ==
    /\ ~dom.controlsHidden /\ dom.submitShown
    /\ outstanding < MaxOutstanding
    /\ \E stageErrors \in IF multi THEN ErrorMaps(Eng, Num(currentStage)) ELSE {{}} :
         \E errors \in IF stageErrors # {} THEN {{}} ELSE ErrorMaps(Eng, NotANumber) :
            Done(_handleSubmit(Eng, stageErrors, errors),
                 SubmitOp("submit", currentStage, multi, stageErrors, errors))
    /\ Validated(track, validated)

\* the input types whose Enter key submits a form that has no submit button,
\* provided the form holds a single control of these types
IMPLICIT_SUBMISSION_TYPES ==
    {"text", "search", "url", "tel", "email", "password", "date", "number"}

\* the "submit" event of the form: the buttons of the controls region are
\* of type "button" and stand outside the form, so the event comes from the
\* Enter key in the only text-like control of the rendered stage
FormSubmit(track) ==
    /\ dom.view = "form"
    /\ Cardinality({n \in dom.wrappers :
           fieldNamed(Eng, dom.formStage, n).type \in IMPLICIT_SUBMISSION_TYPES}) = 1
    /\ outstanding < MaxOutstanding
    /\ \E stageErrors \in IF multi THEN ErrorMaps(Eng, Num(currentStage)) ELSE {{}} :
         \E errors \in IF stageErrors # {} THEN {{}} ELSE ErrorMaps(Eng, NotANumber) :
            Done(_handleSubmit(Eng, stageErrors, errors),
                 SubmitOp("formSubmit", currentStage, multi, stageErrors, errors))
    /\ Validated(track, validated)

PostSettled(track) ==
    /\ outstanding > 0
    /\ \E success \in BOOLEAN :
         Done(postPayloadSettled(Eng, success), Op("settled", 0, success, {}, "current"))
    /\ Validated(track, validated)

Next ==
    \/ LoadSchema(FALSE)
    \/ ShowError(FALSE)
    \/ Reset(FALSE)
    \/ Prev(FALSE)
    \/ NextStage(FALSE)
    \/ Jump(FALSE)
    \/ FieldChange(FALSE)
    \/ FieldInput(FALSE)
    \/ TimerFire(FALSE)
    \/ Submit(FALSE)
    \/ FormSubmit(FALSE)
    \/ PostSettled(FALSE)

Spec == Init /\ [][Next]_vars

\* the same machine, recording which stages passed validation
NextGate ==
    \/ LoadSchema(TRUE)
    \/ ShowError(TRUE)
    \/ Reset(TRUE)
    \/ Prev(TRUE)
    \/ NextStage(TRUE)
    \/ Jump(TRUE)
    \/ FieldChange(TRUE)
    \/ FieldInput(TRUE)
    \/ TimerFire(TRUE)
    \/ Submit(TRUE)
    \/ FormSubmit(TRUE)
    \/ PostSettled(TRUE)

SpecGate == Init /\ [][NextGate]_vars

TypeOK ==
    /\ activeSchema \in SchemaIds \cup {NullSchema}
    /\ currentStage \in 0..2
    /\ furthestStageReached \in 0..2
    /\ outstanding \in 0..MaxOutstanding
    /\ Len(pendingRenderTimers) <= 2

-----------------------------------------------------------------------------
(* The engine with the focus followed: the handlers of the engine on       *)
(* SchemaH, the user moving the focus and the Tab key.                     *)

InitFocus == InitEngine /\ focus = [NoFocus EXCEPT !.tracked = TRUE]

LoadFocusSchema ==
    /\ \E s \in {FocusSchemaId, NullSchema} :
         Done([loadSchema(Eng, s) EXCEPT !.pendingRenderTimers =
                   IF validSchema(s) THEN markTimers(@, "beforeLoad") ELSE @],
              Op(IF validSchema(s) THEN "loadSchema" ELSE "loadInvalid",
                 s, validSchema(s), {}, "current"))
    /\ validated' = validated

\* the enabled step buttons of the displayed indicator, in document order
stepOrder(d) ==
    IF d.indicatorHidden THEN <<>>
    ELSE [i \in 1..Cardinality(d.enabledSteps) |->
             stepButton(CHOOSE index \in d.enabledSteps :
                 Cardinality({k \in d.enabledSteps : k < index}) = i - 1)]

\* the elements of the root that can take the focus, in document order: the
\* indicator stands before the form, the controls region after it
tabOrder(e) == stepOrder(e.dom) \o _getStageFocusableElements(e)

\* focus arrives on el: the focusin event reaches the root's listener when
\* el is inside the root
focusArrives(f, el) ==
    IF el \in {"outside", "body"} THEN [f EXCEPT !.activeElement = el]
    ELSE focusinListener([f EXCEPT !.activeElement = el], el)

EngineUnchanged ==
    UNCHANGED <<activeSchema, state, currentStage, furthestStageReached,
                pendingRenderTimers, isSubmitting, dom, outstanding, validated,
                schemaManager>>

\* the user moves the focus with the pointer; k records focusVersion as the
\* move found it
FocusMoves ==
    /\ \E el \in (Range(tabOrder(Eng)) \cup {"outside", "body"}) \ {focus.activeElement} :
         /\ focus' = focusArrives(focus, el)
         /\ lastOp' = FieldOp("focus", focus.focusVersion, TRUE, el, Undefined, 0)
    /\ focus'.focusVersion <= MaxFocusVersion
    /\ EngineUnchanged

\* The browser's sequential navigation takes a radio group (the radio
\* inputs of one name) as one stop: it enters the group on the checked
\* input or, where none is checked, on the first input going forward and
\* on the last going backward, and it leaves the group from any input of it
sameGroup(a, b) == isRadio(a) /\ isRadio(b) /\ radioOf(a).field = radioOf(b).field

groupChecked(e, order, el) ==
    \E i \in 1..Len(order) : sameGroup(order[i], el) /\ radioChecked(e, order[i])

tabStop(e, order, i, shiftKey) ==
    IF ~isRadio(order[i]) THEN TRUE
    ELSE IF groupChecked(e, order, order[i]) THEN radioChecked(e, order[i])
    ELSE IF shiftKey THEN \A j \in (i + 1)..Len(order) : ~sameGroup(order[j], order[i])
    ELSE \A j \in 1..(i - 1) : ~sameGroup(order[j], order[i])

\* the stops the navigation can reach from position i (1-based)
tabStopsFrom(e, order, i, shiftKey) ==
    {j \in 1..Len(order) :
        /\ IF shiftKey THEN j < i ELSE j > i
        /\ ~sameGroup(order[j], order[i])
        /\ tabStop(e, order, j, shiftKey)}

\* where the browser's default action for Tab takes the focus
tabDefault(e, order, el, shiftKey) ==
    IF focusableIndexOf(order, el) = -1 THEN "outside"
    ELSE IF tabStopsFrom(e, order, focusableIndexOf(order, el) + 1, shiftKey) = {}
    THEN "outside"
    ELSE order[CHOOSE j \in tabStopsFrom(e, order, focusableIndexOf(order, el) + 1, shiftKey) :
                   \A k \in tabStopsFrom(e, order, focusableIndexOf(order, el) + 1, shiftKey) :
                       IF shiftKey THEN k <= j ELSE k >= j]

\* the Tab key pressed with the focus inside the root; ok records that the
\* listener prevented the default, field the element that had the focus,
\* value the shift key
TabKey ==
    /\ focus.activeElement \in Range(tabOrder(Eng))
    /\ \E shiftKey \in BOOLEAN :
         /\ focus' = IF _handleStageTabCycle(focus, Eng, shiftKey).prevented
                     THEN _handleStageTabCycle(focus, Eng, shiftKey).focus
                     ELSE focusArrives(focus,
                              tabDefault(Eng, tabOrder(Eng), focus.activeElement,
                                         shiftKey))
         /\ lastOp' = FieldOp("tab", focus.focusVersion,
                              _handleStageTabCycle(focus, Eng, shiftKey).prevented,
                              focus.activeElement, Bool(shiftKey), 0)
    /\ focus'.focusVersion <= MaxFocusVersion
    /\ EngineUnchanged

NextFocus ==
    \/ LoadFocusSchema
    \/ ShowError(FALSE)
    \/ Reset(FALSE)
    \/ Prev(FALSE)
    \/ NextStage(FALSE)
    \/ Jump(FALSE)
    \/ FieldChange(FALSE)
    \/ FieldInput(FALSE)
    \/ TimerFire(FALSE)
    \/ FocusMoves
    \/ TabKey

SpecFocus == InitFocus /\ [][NextFocus]_vars

-----------------------------------------------------------------------------
(* The editor: one action per SchemaManager operation, with the engine     *)
(* left as it is.  A call that throws changes nothing.                     *)

\* the stage ids and field names a call may be given: those of the schema
\* and those of the forms
stageIdArgs == {schemaManager.schema.stages[i].id : i \in 1..Len(schemaManager.schema.stages)}
                   \cup StageIdInputs
fieldNameArgs == {schemaManager.schema.fields[i].name : i \in 1..Len(schemaManager.schema.fields)}
                     \cup FieldNameInputs

ManagerDone(m) ==
    /\ schemaManager' = m
    /\ UNCHANGED <<activeSchema, state, currentStage, furthestStageReached,
                   pendingRenderTimers, isSubmitting, dom, outstanding, validated,
                   focus, lastOp>>

CreateNewSchema == ManagerDone(createNewSchema(schemaManager))

LoadManagerSchema ==
    \E schemaData \in SchemaDataInputs :
        /\ Len(schemaData.stages) <= MaxStages
        /\ Len(flatMapFields(schemaData.stages)) <= MaxFields
        /\ ManagerDone(loadManagerSchema(schemaManager, schemaData))

UpdateSchemaId ==
    \E id \in SchemaIdInputs : ManagerDone(updateSchemaId(schemaManager, id))

\* the save button and the auto-save interval
SaveToLocalStorage ==
    \E stored \in BOOLEAN : ManagerDone(saveToLocalStorage(schemaManager, stored))

AddStage ==
    /\ Len(schemaManager.schema.stages) < MaxStages
    /\ \E id \in StageIdInputs : \E label \in LabelInputs :
         ManagerDone(addStage(schemaManager, id, label))

EditStage ==
    \E stageId \in stageIdArgs : \E id \in StageIdInputs :
        ManagerDone(editStage(schemaManager, stageId, id))

DeleteStage ==
    \E stageId \in stageIdArgs : ManagerDone(deleteStage(schemaManager, stageId))

DuplicateStage ==
    /\ Len(schemaManager.schema.stages) < MaxStages
    /\ \E stageId \in stageIdArgs :
         /\ Len(duplicatedStageId(schemaManager, stageId)) <= MaxNameLen
         /\ Len(duplicateStage(schemaManager, stageId).schema.fields) <= MaxFields
         /\ ManagerDone(duplicateStage(schemaManager, stageId))

ReorderStages ==
    \E fromIndex \in 0..Len(schemaManager.schema.stages) :
      \E toIndex \in 0..Len(schemaManager.schema.stages) :
        ManagerDone(reorderStages(schemaManager, fromIndex, toIndex))

AddField ==
    /\ Len(schemaManager.schema.fields) < MaxFields
    /\ \E stageId \in stageIdArgs : \E name \in FieldNameInputs : \E type \in TypeInputs :
         ManagerDone(addField(schemaManager, stageId, name, type))

EditField ==
    \E stageId \in stageIdArgs : \E originalFieldName \in fieldNameArgs :
      \E name \in FieldNameInputs :
        ManagerDone(editField(schemaManager, stageId, originalFieldName, name))

DeleteField ==
    \E stageId \in stageIdArgs : \E fieldName \in fieldNameArgs :
        ManagerDone(deleteField(schemaManager, stageId, fieldName))

DuplicateField ==
    /\ Len(schemaManager.schema.fields) < MaxFields
    /\ \E stageId \in stageIdArgs : \E fieldName \in fieldNameArgs :
         /\ Len(duplicatedFieldName(schemaManager, fieldName)) <= MaxNameLen
         /\ ManagerDone(duplicateField(schemaManager, stageId, fieldName))

ReorderFields ==
    \E stageId \in stageIdArgs :
      \E fromIndex \in 0..Len(schemaManager.schema.fields) :
        \E toIndex \in 0..Len(schemaManager.schema.fields) :
          ManagerDone(reorderFields(schemaManager, stageId, fromIndex, toIndex))

NextEditor ==
    \/ CreateNewSchema
    \/ LoadManagerSchema
    \/ UpdateSchemaId
    \/ SaveToLocalStorage
    \/ AddStage
    \/ EditStage
    \/ DeleteStage
    \/ DuplicateStage
    \/ ReorderStages
    \/ AddField
    \/ EditField
    \/ DeleteField
    \/ DuplicateField
    \/ ReorderFields

SpecEditor == Init /\ [][NextEditor]_vars

-----------------------------------------------------------------------------
(* The pure functions of schemaUtils.js and of the summary, applied to     *)
(* states and fields drawn from bounded sets.                              *)

\* the values a controller's state entry is drawn from
DisplayValues == {Undefined, Null, Bool(TRUE), Bool(FALSE), Str(""), Str("true"), Str("a")}

\* a field without a condition and fields with conditions on hasPet and b
ConditionFields ==
    { Field("email", "email"),
      FieldIf("b", "text", "hasPet", Bool(TRUE)),
      FieldIf("b", "text", "hasPet", Bool(FALSE)),
      FieldIf("c", "select", "b", Str("a")),
      FieldIf("c", "select", "b", Str("true")),
      FieldIf("d", "textarea", "b", Undefined) }

\* shouldDisplayField(field, state) with the state of an instance that has
\* no schema; lastOp records the condition in field and value, k whether the
\* field has one, and ok the result
Display ==
    /\ UNCHANGED validated
    /\ \E field \in ConditionFields : \E hasPetValue \in DisplayValues, bValue \in DisplayValues :
        Done([Eng EXCEPT !.activeSchema = NullSchema, !.dom = InitialDom,
                         !.state = [EmptyState EXCEPT !["hasPet"] = hasPetValue,
                                                      !["b"] = bValue]],
             FieldOp("display", IF field.hasShowIf THEN 1 ELSE 0,
                     shouldDisplayField(field, [EmptyState EXCEPT !["hasPet"] = hasPetValue,
                                                                  !["b"] = bValue]),
                     field.showIf.field, field.showIf.equals, 0))

\* the values the state entries of the summarised schema are drawn from
SummaryValues ==
    [hasPet |-> {Undefined, Null, Str(""), Bool(TRUE), Bool(FALSE)},
     c |-> {Undefined, Null, Str(""), Str("a"), Str("b")},
     b |-> {Undefined, Str("a"), Str("z")},
     d |-> {Undefined, Str(""), Str("a")}]

\* _renderSummaryStage() on SchemaS with the drawn state
Summarize ==
    /\ UNCHANGED validated
    /\ \E hasPetValue \in SummaryValues.hasPet, cValue \in SummaryValues.c,
       bValue \in SummaryValues.b, dValue \in SummaryValues.d :
        Done(_renderSummaryStage(
                 [Eng EXCEPT !.activeSchema = SummarySchemaId,
                             !.state = [EmptyState EXCEPT !["hasPet"] = hasPetValue,
                                                          !["c"] = cValue,
                                                          !["b"] = bValue,
                                                          !["d"] = dValue]]),
             Op("summary", 0, TRUE, {}, "current"))

NextValues == Display \/ Summarize

SpecValues == Init /\ [][NextValues]_vars

-----------------------------------------------------------------------------
(* Properties *)


\* C1: furthestStageReached >= currentStage in every reachable state.
C1_FurthestAtLeastCurrent == furthestStageReached >= currentStage

\* a render scheduled before a reset or load fired later and moved the stage
C1_Witness ==
    /\ lastOp.op = "timer" /\ lastOp.origin # "current"
    /\ currentStage > 0 /\ furthestStageReached >= currentStage

\* C2: with a schema loaded, currentStage is within [0, stageCount-1], also
\* when a render scheduled under a schema with more stages fires later.
C2_CurrentStageInRange ==
    loaded => currentStage >= 0 /\ currentStage <= lastStage

\* a timer for a stage the current schema does not have fired and was clamped
C2_Witness ==
    /\ lastOp.op = "timer" /\ lastOp.origin = "beforeLoad"
    /\ multi /\ lastOp.k > lastStage /\ currentStage = lastStage

\* C3: in a multi-stage form every stage below currentStage passed
\* validateStage when the user moved forward past it.
C3_NoStagePassedUnvalidated ==
    multi => \A k \in 0..(currentStage - 1) : k \in validated

\* C4: after a render cycle no field whose showIf is false has a state entry.
rendered ==
    \/ lastOp.op \in {"loadSchema", "reset", "prev", "change", "timer"}
    \/ lastOp.op \in {"next", "jump"} /\ lastOp.ok

C4_NoHiddenValueAfterRender ==
    (loaded /\ rendered) =>
        \A f \in Range(getFields(Schemas[activeSchema], NotANumber)) :
            (f.hasShowIf /\ ~shouldDisplayField(f, state)) => state[f.name] = Undefined

\* C5: loadSchema and reset leave no pending debounce timer, and no render
\* scheduled before them fires afterwards.
C5_LoadAndResetCancelTimers ==
    /\ lastOp.op \in {"loadSchema", "reset"} => pendingRenderTimers = <<>>
    /\ ~(lastOp.op = "timer" /\ lastOp.origin # "current")

\* C6: at most one _postPayload call is outstanding, and while one is the
\* engine is in the submitting state.
C6_SingleSubmissionInFlight ==
    /\ outstanding <= 1
    /\ outstanding > 0 => isSubmitting

\* C7: a loadSchema leaves no value of the previous schema in the state, and
\* no timer that was pending at the load changes the navigation afterwards.
C7_NoLeakAcrossLoads ==
    /\ [](lastOp.op = "loadSchema" => state = EmptyState)
    /\ [][(lastOp'.op = "timer" /\ lastOp'.origin = "beforeLoad")
            => (currentStage' = currentStage
                /\ furthestStageReached' = furthestStageReached)]_vars

\* C8 as stated: right after loadSchema of a valid schema and right after
\* reset the navigation state is (0, 0).
C8_Original ==
    lastOp.op \in {"loadSchema", "reset"} =>
        currentStage = 0 /\ furthestStageReached = 0

\* C8 amended: right after loadSchema of a valid schema and right after reset
\* currentStage is 0, and furthestStageReached is 0 unless the schema has an
\* optional summary stage and stage 0 is its last data stage, where it is
\* min(1, stageCount-1).
C8_NavigationAfterLoadOrReset ==
    lastOp.op \in {"loadSchema", "reset"} =>
        /\ currentStage = 0
        /\ furthestStageReached =
              IF multi /\ _isOptionalSummaryStage(Eng) /\ _getLastDataStageIndex(Eng) = 0
              THEN Min(1, lastStage) ELSE 0

\* a reset of a form whose only data stage precedes an optional summary
C8_Witness ==
    /\ lastOp.op = "reset" /\ multi
    /\ currentStage = 0 /\ furthestStageReached = 1

\* C9: next advances currentStage (by one) only if validateStage returned no
\* errors; with errors the stage, the furthest stage and the form state are
\* unchanged and the errors are shown on the controls of the current stage.
C9_NextRequiresValidStage ==
    [][lastOp'.op = "next" =>
        /\ currentStage' # currentStage =>
              lastOp'.ok /\ currentStage' = currentStage + 1
        /\ (multi /\ lastOp'.ok /\ currentStage < lastStage) =>
              currentStage' = currentStage + 1
        /\ (multi /\ ~lastOp'.ok) =>
              /\ currentStage' = currentStage
              /\ furthestStageReached' = furthestStageReached
              /\ state' = state
              /\ dom'.errors = lastOp'.errs \cap dom.wrappers
              /\ dom'.wrappers = dom.wrappers
              /\ dom'.view = dom.view]_vars

\* next was refused and the error is displayed
C9_Witness ==
    /\ lastOp.op = "next" /\ ~lastOp.ok /\ multi
    /\ dom.errors # {} /\ dom.errors = lastOp.errs

\* C10: an indicator jump to k changes currentStage only if
\* k <= furthestStageReached; a request beyond it changes nothing.
C10_JumpOnlyToReachedStages ==
    [][lastOp'.op = "jump" =>
        /\ currentStage' # currentStage =>
              lastOp'.k <= furthestStageReached /\ currentStage' = lastOp'.k
        /\ lastOp'.k > furthestStageReached =>
              /\ currentStage' = currentStage
              /\ furthestStageReached' = furthestStageReached
              /\ dom' = dom
              /\ state' = state]_vars

\* a jump beyond the furthest stage was requested and refused
C10_Witness ==
    /\ lastOp.op = "jump" /\ ~lastOp.ok
    /\ lastOp.k > furthestStageReached

\* C11: prev moves currentStage to max(currentStage - 1, 0) whether or not
\* the current stage is valid, never lowers furthestStageReached and leaves
\* the form state as it was.
C11_PrevLeavesStateUntouched ==
    [][lastOp'.op = "prev" =>
        /\ currentStage' = Max(currentStage - 1, 0)
        /\ furthestStageReached' >= furthestStageReached
        /\ state' = state]_vars

\* a field is displayed to the user when its own showIf holds and the
\* controller it names is displayed as well
RECURSIVE shownThrough(_, _, _)
shownThrough(schema, f, st) ==
    \/ ~f.hasShowIf
    \/ /\ evaluateCondition(f.showIf, st)
       /\ \A g \in Range(getFields(schema, NotANumber)) :
              g.name = f.showIf.field => shownThrough(schema, g, st)

\* C12: the payload handed to _postPayload holds exactly the non-plain-text
\* fields whose showIf holds in the state and that have a value, and no field
\* that is hidden, directly or because its controller is hidden.
C12_PayloadOnlyVisibleFields ==
    lastOp.posted =>
        /\ lastOp.payload =
              {<<f.name, state[f.name]>> :
                  f \in {g \in Range(getFields(Schemas[activeSchema], NotANumber)) :
                            /\ ~isPlainTextField(g)
                            /\ shouldDisplayField(g, state)
                            /\ state[g.name] # Undefined}}
        /\ \A f \in Range(getFields(Schemas[activeSchema], NotANumber)) :
              (\E v \in {Bool(TRUE), Bool(FALSE), Str("a"), Str("b")} :
                   <<f.name, v>> \in lastOp.payload)
                  => shownThrough(Schemas[activeSchema], f, state)

\* the stages of the active schema that hold a field named in errs
stagesWithError(errs) ==
    {k \in 0..lastStage :
        \E f \in Range(getFields(Schemas[activeSchema], Num(k))) : f.name \in errs}

\* C13: when whole-schema validation fails at submit, _postPayload is not
\* called, currentStage becomes the lowest stage that holds a field with an
\* error, and the errors of the fields of that stage are shown on their
\* controls.
C13_SubmitFailureGoesToFirstErrorStage ==
    [][(lastOp'.op \in {"submit", "formSubmit"} /\ lastOp'.failed = "schema") =>
        /\ ~lastOp'.posted /\ outstanding' = outstanding
        /\ multi => /\ stagesWithError(lastOp'.errs) # {}
                    /\ currentStage' \in stagesWithError(lastOp'.errs)
                    /\ \A k \in stagesWithError(lastOp'.errs) : currentStage' <= k
        /\ ~multi => currentStage' = currentStage
        /\ dom'.errors = lastOp'.errs \cap dom'.wrappers
        /\ currentStage' # currentStage =>
              dom'.errors =
                  {f.name : f \in {g \in Range(getFields(Schemas[activeSchema],
                                                         Num(currentStage'))) :
                                      /\ g.name \in lastOp'.errs
                                      /\ ~isPlainTextField(g)
                                      /\ shouldDisplayField(g, state')}}]_vars

\* a submit found errors on two stages and moved back to the lower one
C13_Witness ==
    /\ lastOp.op = "submit" /\ lastOp.failed = "schema" /\ multi
    /\ Cardinality(stagesWithError(lastOp.errs)) = 2
    /\ currentStage < lastOp.k
    /\ dom.errors # {}

\* the stages of the active schema that are not summary stages
dataStages == {k \in 0..lastStage : Schemas[activeSchema].stages[k + 1].type # "summary"}

\* the active schema has a summary stage / has one that is not optional
hasSummary == \E k \in 0..lastStage : Schemas[activeSchema].stages[k + 1].type = "summary"
hasMandatorySummary ==
    \E k \in 0..lastStage : /\ Schemas[activeSchema].stages[k + 1].type = "summary"
                            /\ ~Schemas[activeSchema].stages[k + 1].optional

\* C14: on a rendered stage the submit button is displayed iff the schema
\* is single-stage, or the stage is the summary stage, or the stage is the
\* final data stage and the schema has no summary stage or an optional one.
C14_SubmitAffordance ==
    (loaded /\ dom.view \in {"form", "summary"}) =>
        (dom.submitShown <=>
            \/ ~multi
            \/ multi /\ currentStage \notin dataStages
            \/ /\ multi /\ currentStage \in dataStages
               /\ \A k \in dataStages : k <= currentStage
               /\ ~hasMandatorySummary)

\* the last data stage before an optional summary offers submit
C14_Witness ==
    /\ multi /\ dom.view = "form" /\ dom.submitShown
    /\ hasSummary /\ ~hasMandatorySummary
    /\ currentStage > 0 /\ currentStage \in dataStages

\* C15: with a summary stage that is not optional, _postPayload is called
\* only while currentStage is the summary stage, whichever submit trigger
\* (the submit button or the form's submit event) started the handler.
C15_SubmitOnlyFromMandatorySummary ==
    (lastOp.posted /\ multi /\ hasMandatorySummary) => currentStage \notin dataStages

\* the index of the summary stage of the active schema
summaryStage == CHOOSE k \in 0..lastStage : Schemas[activeSchema].stages[k + 1].type = "summary"

\* C16: with an optional summary right after the last data stage, being on
\* the last data stage implies furthestStageReached >= the summary index,
\* visited or not; with a summary that is not optional the summary index is
\* reached by furthestStageReached only when the summary itself is rendered.
C16_OptionalSummaryAutoUnlock ==
    /\ []((multi /\ hasSummary /\ ~hasMandatorySummary
            /\ currentStage \in dataStages /\ currentStage + 1 = summaryStage)
           => furthestStageReached >= summaryStage)
    /\ [][(multi /\ hasMandatorySummary /\ activeSchema' = activeSchema
            /\ furthestStageReached < summaryStage
            /\ furthestStageReached' >= summaryStage)
           => currentStage' = summaryStage]_vars

\* next reached the last data stage for the first time and the optional
\* summary behind it is unlocked
C16_Witness ==
    /\ lastOp.op = "next" /\ lastOp.ok /\ lastOp.k = 0
    /\ multi /\ hasSummary /\ ~hasMandatorySummary
    /\ currentStage = 1 /\ summaryStage = 2 /\ furthestStageReached = 2

\* C17: when a change or input handler gives a controller a value that makes
\* a dependent's showIf false, the dependent has no value when the handler
\* returns; and whenever a step makes the showIf of a field true again the
\* field has no value in state.
C17_HiddenValueDroppedAndNotRestored ==
    [][(loaded /\ activeSchema' = activeSchema) =>
        \A f \in Range(getFields(Schemas[activeSchema], NotANumber)) :
            f.hasShowIf =>
                /\ (/\ lastOp'.op \in {"change", "input"} /\ lastOp'.ok
                    /\ lastOp'.field = f.showIf.field
                    /\ lastOp'.value # f.showIf.equals)
                      => state'[f.name] = Undefined
                /\ (~shouldDisplayField(f, state) /\ shouldDisplayField(f, state'))
                      => state'[f.name] = Undefined]_vars

\* the controller of a field that held a value was changed to a value
\* that hides the field
C17_Witness ==
    /\ loaded /\ lastOp.op = "change" /\ lastOp.k > 0
    /\ \E f \in Range(getFields(Schemas[activeSchema], NotANumber)) :
          /\ f.hasShowIf /\ f.showIf.field = lastOp.field
          /\ f.showIf.equals # lastOp.value
          /\ state[f.name] = Undefined

\* C18: when the change handler of a checkbox, select or radio controller
\* returns, the rendered fields of the current stage are exactly those whose
\* showIf holds in the updated state: a dependent of the controller is
\* rendered iff the controller's value in state equals its showIf.equals, and
\* has no value when the value given differs from it.
C18_ChangeRendersSynchronously ==
    [][(lastOp'.op = "change" /\ loaded
        /\ fieldNamed(Eng, dom.formStage, lastOp'.field).type
              \in {"checkbox", "select", "radio"}) =>
        /\ dom'.view = "form"
        /\ dom'.formStage = IF multi THEN Num(currentStage') ELSE NotANumber
        /\ dom'.wrappers \cup dom'.blocks =
              {f.name : f \in {g \in Range(getFields(Schemas[activeSchema], dom'.formStage)) :
                                  shouldDisplayField(g, state')}}
        /\ \A f \in Range(getFields(Schemas[activeSchema], dom'.formStage)) :
              (f.hasShowIf /\ f.showIf.field = lastOp'.field) =>
                  /\ f.name \in dom'.wrappers \cup dom'.blocks
                        <=> state'[lastOp'.field] = f.showIf.equals
                  /\ lastOp'.value # f.showIf.equals => state'[f.name] = Undefined]_vars

\* checking the box revealed its dependent in the same handler
C18_Witness ==
    /\ loaded /\ lastOp.op = "change" /\ lastOp.value = Bool(TRUE)
    /\ \E f \in Range(getFields(Schemas[activeSchema], dom.formStage)) :
          /\ f.hasShowIf /\ f.showIf.field = lastOp.field
          /\ f.showIf.equals = lastOp.value
          /\ f.name \in dom.wrappers

\* C19 as stated: typing into a text field that is not a controller leaves
\* exactly one render scheduled for it.
C19_Original ==
    (/\ loaded /\ lastOp.op = "input"
     /\ lastOp.field \notin getControllerFields(Schemas[activeSchema]))
        => pendingFor(pendingRenderTimers, lastOp.field) = 1

\* C19 amended: a keystroke in a text field that is a controller renders
\* nothing itself and leaves exactly one timer pending for the field, the
\* newest one, whether or not one was pending before; the render runs when
\* that timer fires.  A keystroke in a text field that is not a controller
\* has no listener: it schedules nothing and renders nothing.
C19_OneDebouncedRenderPerController ==
    [][(loaded /\ lastOp'.op = "input") =>
        /\ lastOp'.ok <=> lastOp'.field \in getControllerFields(Schemas[activeSchema])
        /\ dom' = dom /\ currentStage' = currentStage
        /\ lastOp'.ok =>
              /\ pendingFor(pendingRenderTimers', lastOp'.field) = 1
              /\ pendingRenderTimers'[Len(pendingRenderTimers')].field = lastOp'.field
              /\ Len(pendingRenderTimers') =
                    Len(pendingRenderTimers)
                      - pendingFor(pendingRenderTimers, lastOp'.field) + 1
        /\ ~lastOp'.ok =>
              pendingRenderTimers' = pendingRenderTimers /\ state' = state]_vars

\* a keystroke arrived while the timer of an earlier keystroke in the same
\* field was pending, and one timer is pending
C19_Witness ==
    /\ lastOp.op = "input" /\ lastOp.ok /\ lastOp.k = 1
    /\ pendingFor(pendingRenderTimers, lastOp.field) = 1

\* C20: every operation that changes currentStage emits a stage announcement
\* to the live region, and an operation that leaves currentStage unchanged
\* emits none.
C20_StageChangeAnnounced ==
    [][/\ currentStage' # currentStage => lastOp'.announced = "stage"
       /\ currentStage' = currentStage => lastOp'.announced # "stage"]_vars

\* C22: loadSchema of a malformed schema shows the error in place of the
\* form with the controls hidden and leaves the form state and the
\* navigation state as they were; a later loadSchema of a valid schema
\* renders stage 0 with the controls region displayed again.
C22_SchemaErrorIsRecoverable ==
    /\ [](lastOp.op = "loadInvalid" => dom.view = "error" /\ dom.controlsHidden)
    /\ [][lastOp'.op = "loadInvalid" =>
             /\ state' = state /\ activeSchema' = activeSchema
             /\ currentStage' = currentStage
             /\ furthestStageReached' = furthestStageReached]_vars
    /\ [](lastOp.op = "loadSchema" =>
             /\ currentStage = 0 /\ dom.view \in {"form", "summary"}
             /\ ~dom.controlsHidden)

\* C23: a submit whose policy call reports failure leaves the form state,
\* currentStage and furthestStageReached exactly as they were before the
\* submit: neither the handler that posts nor the settling of the call
\* changes them.
C23_FailedSubmitLeavesFormAsItWas ==
    [][(lastOp'.posted \/ (lastOp'.op = "settled" /\ ~lastOp'.ok)) =>
        /\ state' = state
        /\ currentStage' = currentStage
        /\ furthestStageReached' = furthestStageReached]_vars

\* C24: right after reset the form state map is empty and _clearDraft has
\* been called; an empty state map stays empty through every step that is
\* not an input or change event (no timer and no render inserts a value).
C24_ResetEmptiesState ==
    /\ [](lastOp.op = "reset" => state = EmptyState /\ lastOp.draft = "cleared")
    /\ [][(state = EmptyState /\ lastOp'.op \notin {"change", "input"})
             => state' = EmptyState]_vars

\* a render scheduled before the reset fired after it and the state is empty
C24_Witness ==
    /\ lastOp.op = "timer" /\ lastOp.origin = "beforeReset"
    /\ loaded /\ state = EmptyState

\* the timers of the fields other than fieldName, in order
timersOfOthers(timers, fieldName) == SelectSeq(timers, LAMBDA t : t.field # fieldName)

\* C26: no field name ever has more than one pending timer; an input event
\* on a field replaces that field's timer by a new one and leaves the timers
\* of the other fields pending, and the firing of a timer removes that timer
\* only, so a burst of input events on one field ends in one render.
C26_OneTimerPerField ==
    /\ [](\A n \in FieldNames : pendingFor(pendingRenderTimers, n) <= 1)
    /\ [][(lastOp'.op = "input" /\ lastOp'.ok) =>
             /\ pendingFor(pendingRenderTimers', lastOp'.field) = 1
             /\ timersOfOthers(pendingRenderTimers', lastOp'.field)
                   = timersOfOthers(pendingRenderTimers, lastOp'.field)]_vars
    /\ [][lastOp'.op = "timer" =>
             /\ pendingFor(pendingRenderTimers', Head(pendingRenderTimers).field) = 0
             /\ pendingRenderTimers' =
                   timersOfOthers(pendingRenderTimers, Head(pendingRenderTimers).field)]_vars

\* a second input event on a field while its timer and the timer of another
\* field were pending: both fields have one timer
C26_Witness ==
    /\ lastOp.op = "input" /\ lastOp.ok /\ lastOp.pending = 1
    /\ Len(pendingRenderTimers) = 2
    /\ pendingRenderTimers[1].field # pendingRenderTimers[2].field
    /\ pendingRenderTimers[1].origin = "current"

\* C27: when the change handler of a field returns, no timer is pending for
\* that field (the one an earlier input event had set is cancelled; only a
\* pending timer can fire), and the timers of the other fields are untouched.
C27_ChangeCancelsPendingRender ==
    [][(lastOp'.op = "change" /\ loaded) =>
        /\ pendingFor(pendingRenderTimers', lastOp'.field) = 0
        /\ pendingRenderTimers' = timersOfOthers(pendingRenderTimers, lastOp'.field)
        /\ state'[lastOp'.field] \in {lastOp'.value, Undefined}]_vars

\* a change event arrived while the field's debounce timer was pending
C27_Witness ==
    /\ lastOp.op = "change" /\ lastOp.pending = 1
    /\ pendingFor(pendingRenderTimers, lastOp.field) = 0
    /\ state[lastOp.field] = lastOp.value

\* C28: the firing of a debounce timer leaves currentStage and
\* furthestStageReached as they were just before it, also after a
\* navigation, a reset or a load between the scheduling and the firing.
C28_TimerKeepsNavigation ==
    [][lastOp'.op = "timer" =>
        /\ currentStage' = currentStage
        /\ furthestStageReached' = furthestStageReached]_vars

\* C29: a rendered free-text control has the input listener iff its field is
\* named by the showIf of some field; an input event on such a control writes
\* the value to state in the handler, schedules a render and renders nothing
\* itself; an input event on a free-text control of a field that is not a
\* controller leaves the state as it is, and its change event writes it.
C29_InputListenerOnlyOnControllers ==
    /\ []((loaded /\ dom.view = "form") =>
             dom.inputListeners =
                 {n \in dom.wrappers :
                     /\ fieldNamed(Eng, dom.formStage, n).type \in INPUT_EVENT_TYPES
                     /\ n \in getControllerFields(Schemas[activeSchema])})
    /\ [][(loaded /\ lastOp'.op = "input") =>
             /\ lastOp'.ok =>
                   /\ state'[lastOp'.field] = lastOp'.value
                   /\ pendingFor(pendingRenderTimers', lastOp'.field) = 1
                   /\ dom' = dom
             /\ ~lastOp'.ok => state' = state /\ dom' = dom]_vars
    /\ [][(loaded /\ lastOp'.op = "change"
            /\ lastOp'.field \notin getControllerFields(Schemas[activeSchema]))
             => state'[lastOp'.field] \in {lastOp'.value, Undefined}]_vars

\* a keystroke in a controller wrote a value that hides a dependent, which
\* is still on screen while the render is pending
C29_Witness ==
    /\ loaded /\ lastOp.op = "input" /\ lastOp.ok
    /\ state[lastOp.field] = lastOp.value
    /\ pendingFor(pendingRenderTimers, lastOp.field) = 1
    /\ \E f \in Range(getFields(Schemas[activeSchema], dom.formStage)) :
          /\ f.hasShowIf /\ f.showIf.field = lastOp.field
          /\ f.name \in dom.wrappers /\ ~shouldDisplayField(f, state)

\* the fields of the rendered stage that the state displays
displayedNow(schema, stageIndex, st) ==
    {f.name : f \in {g \in Range(getFields(schema, stageIndex)) :
                        shouldDisplayField(g, st)}}

\* C30 as stated: after every keystroke in a free-text controller the form
\* on screen shows exactly the fields the new state displays.
C30_Original ==
    [][(loaded /\ lastOp'.op = "input" /\ lastOp'.ok) =>
          dom'.wrappers \cup dom'.blocks =
              displayedNow(Schemas[activeSchema], dom'.formStage, state')]_vars

\* C30: a keystroke in a free-text controller leaves the form on screen as
\* it was and leaves a timer pending for the field; the form shown when a
\* timer fires has exactly the fields the state displays, so a dependent's
\* visibility follows the keystrokes after the debounce delay.
C30_DependentFollowsWhenTimerFires ==
    /\ [][(loaded /\ lastOp'.op = "input" /\ lastOp'.ok) =>
             /\ dom'.wrappers = dom.wrappers /\ dom'.blocks = dom.blocks
             /\ \E i \in 1..Len(pendingRenderTimers') :
                   pendingRenderTimers'[i].field = lastOp'.field]_vars
    /\ [][(lastOp'.op = "timer" /\ activeSchema' # NullSchema /\ dom'.view = "form") =>
             dom'.wrappers \cup dom'.blocks =
                 displayedNow(Schemas[activeSchema'], dom'.formStage, state')]_vars

\* a timer of the current form fired and the form no longer shows a
\* dependent that the typed value of its free-text controller hides
C30_Witness ==
    /\ loaded /\ lastOp.op = "timer" /\ lastOp.origin = "current"
    /\ dom.view = "form"
    /\ \E f \in Range(getFields(Schemas[activeSchema], dom.formStage)) :
          /\ f.hasShowIf
          /\ f.showIf.field \in dom.inputListeners
          /\ state[f.showIf.field] # Undefined
          /\ ~shouldDisplayField(f, state)
          /\ f.name \notin dom.wrappers \cup dom.blocks

\* the stage ids and the field names of the editor's schema, stage by stage
managerStageIds == [i \in 1..Len(schemaManager.schema.stages) |->
                       schemaManager.schema.stages[i].id]
managerFieldNames == [i \in 1..Len(flatMapFields(schemaManager.schema.stages)) |->
                         flatMapFields(schemaManager.schema.stages)[i].name]
pairwiseDistinct(names) ==
    \A i, j \in 1..Len(names) : i # j => names[i] # names[j]

\* C21: after any sequence of the stage and field operations of the
\* SchemaManager from the empty schema (no schema has been loaded into it)
\* the stage ids are pairwise distinct and the field names are pairwise
\* distinct over all stages.
C21_UniqueStageIdsAndFieldNames ==
    ~schemaManager.loadedSchema =>
        pairwiseDistinct(managerStageIds) /\ pairwiseDistinct(managerFieldNames)

\* the number of fields in the stages before stage i
RECURSIVE fieldsBefore(_, _)
fieldsBefore(stages, i) ==
    IF i <= 1 THEN 0 ELSE fieldsBefore(stages, i - 1) + Len(stages[i - 1].fields)

\* C25: after every SchemaManager operation schema.fields is the
\* concatenation, in stage order, of the stages' fields: it has as many
\* entries as the stages have fields, and the k-th field of stage i is its
\* entry number (fields of the stages before i) + k.
C25_FieldsAreFlattenedStages ==
    /\ Len(schemaManager.schema.fields) =
           fieldsBefore(schemaManager.schema.stages, Len(schemaManager.schema.stages) + 1)
    /\ \A i \in 1..Len(schemaManager.schema.stages) :
          \A k \in 1..Len(schemaManager.schema.stages[i].fields) :
             schemaManager.schema.fields[fieldsBefore(schemaManager.schema.stages, i) + k]
                 = schemaManager.schema.stages[i].fields[k]

\* operations have returned, the second stage's fields follow the first's
\* in schema.fields, and the order of the stages matters to it
C25_Witness ==
    /\ schemaManager.hasUnsavedChanges
    /\ Len(schemaManager.schema.stages) >= 2
    /\ schemaManager.schema.stages[1].fields # <<>>
    /\ schemaManager.schema.stages[2].fields # <<>>
    /\ schemaManager.schema.stages[1].fields[1] # schemaManager.schema.stages[2].fields[1]
    /\ schemaManager.schema.fields =
           schemaManager.schema.stages[1].fields \o schemaManager.schema.stages[2].fields

\* C31: a handler or render that changes the form state ends with the draft
\* policy having been given the state as it now is (also after the removal
\* of a pruned value), the change and input handlers save the state they
\* leave, and reset calls clearDraft.
C31_DraftFollowsState ==
    /\ [][(state' # state /\ lastOp'.op \notin {"reset", "loadSchema"}) =>
             lastOp'.draft = "saved" /\ lastOp'.draftState = state']_vars
    /\ [][(lastOp'.op = "change" \/ (lastOp'.op = "input" /\ lastOp'.ok)) =>
             lastOp'.draft = "saved" /\ lastOp'.draftState = state']_vars
    /\ [](lastOp.op = "reset" => lastOp.draft = "cleared")

\* where the focus is once a render has replaced the form, before anything
\* is restored
activeAfterReplace(f, d) ==
    IF f.activeElement \in FieldInputs \cup StepButtons THEN "body"
    ELSE IF f.activeElement \in ControlButtons /\ ~isElementVisible(d, f.activeElement)
    THEN "body"
    ELSE f.activeElement

\* the control a target names, where the render left it on screen
elementOfTarget(d, target) ==
    IF ~target.isNull /\ \E el \in Range(d.inputs) : elementId(el) = target.id
    THEN CHOOSE el \in Range(d.inputs) : elementId(el) = target.id
    ELSE "body"

\* C32: when a timer's render keeps the stage, a captured target of the
\* current focus version gets the focus back (where its control is still
\* shown); a captured target of another version does not: the focus stays
\* where it is when an element of the form's scope has it, and otherwise
\* goes to the control of the last in-scope target, if there is one.  The
\* change handler's render is always given a target of the current version.
C32_StaleTargetNotRestored ==
    /\ [][(focus.tracked /\ loaded /\ lastOp'.op = "timer"
           /\ activeSchema' = activeSchema /\ currentStage' = currentStage) =>
          IF focus.timerTargets[Head(pendingRenderTimers).field].version = focus.focusVersion
          THEN elementOfTarget(dom', focus.timerTargets[Head(pendingRenderTimers).field])
                   # "body"
               => focus'.activeElement =
                      elementOfTarget(dom', focus.timerTargets[Head(pendingRenderTimers).field])
          ELSE IF activeAfterReplace(focus, dom') \in ControlButtons
          THEN focus'.activeElement = focus.activeElement
               /\ focus'.focusVersion = focus.focusVersion
          ELSE IF elementOfTarget(dom', focus.lastStageFocusTarget) # "body"
          THEN focus'.activeElement = elementOfTarget(dom', focus.lastStageFocusTarget)
          ELSE focus'.activeElement = activeAfterReplace(focus, dom')
                   /\ focus'.focusVersion = focus.focusVersion]_vars
    /\ [][(focus.tracked /\ loaded /\ lastOp'.op = "change") =>
              ~focus'.stale /\ focus'.restored = "captured"]_vars

\* a timer fired after the focus had moved to another control: its target
\* was stale and the control of the last in-scope target got the focus
C32_Witness ==
    /\ focus.tracked /\ lastOp.op = "timer"
    /\ focus.stale /\ focus.restored = "last"
    /\ focus.activeElement \in FieldInputs
    /\ focus.lastStageFocusTarget.id = elementId(focus.activeElement)

\* C33: focusVersion never decreases; it grows whenever the user moves the
\* focus to another element, inside or outside the root; so a target that a
\* timer captured on a control of the form is stale when the timer fires
\* with the focus outside the root.
C33_VersionCountsEveryFocusChange ==
    /\ [][focus'.focusVersion >= focus.focusVersion]_vars
    /\ [][(lastOp'.op \in {"focus", "tab"} /\ lastOp' # lastOp
           /\ focus'.activeElement # focus.activeElement
           /\ focus'.activeElement # "body") =>
              focus'.focusVersion > focus.focusVersion]_vars
    /\ [][(focus.tracked /\ lastOp'.op = "timer" /\ lastOp' # lastOp
           /\ focus.activeElement = "outside"
           /\ focus.timerTargets[Head(pendingRenderTimers).field].id # "") =>
              focus.timerTargets[Head(pendingRenderTimers).field].version
                  # focus.focusVersion]_vars

\* C40: after a reset the focus is on the first focusable control of stage
\* 0 and no last in-scope focus target from before the reset is kept: the
\* one remembered is that of the control the reset focused.
C40_ResetFocusesFirstControl ==
    [][(focus.tracked /\ loaded /\ lastOp'.op = "reset") =>
          /\ focus'.activeElement = Head(_getStageFocusableElements(Eng'))
          /\ focus'.lastStageFocusTarget.id = elementId(focus'.activeElement)
          /\ focus'.lastStageFocusTarget.version = focus'.focusVersion]_vars

\* the position of el among the focusable elements of the form's scope
focusablePosition(e, el) ==
    CHOOSE i \in 1..Len(_getStageFocusableElements(e)) :
        _getStageFocusableElements(e)[i] = el

\* the browser's navigation takes the radio inputs of a group as one stop;
\* between two controls that are not radio inputs it goes to the neighbour
neighbourByDefault(e, i, j) ==
    ~isRadio(_getStageFocusableElements(e)[i]) /\ ~isRadio(_getStageFocusableElements(e)[j])

\* C35: with the focus on a focusable control of the form's scope, Tab on
\* the last one moves the focus to the first and Shift+Tab on the first
\* moves it to the last, the default being prevented; on any other control
\* the default is not prevented, the listener leaves the focus to the
\* browser, and the focus moves to the next (with Shift, the previous)
\* control where neither of the two is an input of a radio group.
C35_TabWrapsAtTheEnds ==
    [][(lastOp'.op = "tab" /\ focus.activeElement \in Range(_getStageFocusableElements(Eng)))
        =>
        IF lastOp'.value = Bool(FALSE)
        THEN IF focusablePosition(Eng, focus.activeElement)
                    = Len(_getStageFocusableElements(Eng))
             THEN lastOp'.ok /\ focus'.activeElement = _getStageFocusableElements(Eng)[1]
             ELSE /\ ~lastOp'.ok
                  /\ _handleStageTabCycle(focus, Eng, FALSE).focus = focus
                  /\ neighbourByDefault(Eng, focusablePosition(Eng, focus.activeElement),
                                        focusablePosition(Eng, focus.activeElement) + 1)
                     => focus'.activeElement = _getStageFocusableElements(Eng)[
                            focusablePosition(Eng, focus.activeElement) + 1]
        ELSE IF focusablePosition(Eng, focus.activeElement) = 1
             THEN lastOp'.ok
                  /\ focus'.activeElement = _getStageFocusableElements(Eng)[
                         Len(_getStageFocusableElements(Eng))]
             ELSE /\ ~lastOp'.ok
                  /\ _handleStageTabCycle(focus, Eng, TRUE).focus = focus
                  /\ neighbourByDefault(Eng, focusablePosition(Eng, focus.activeElement),
                                        focusablePosition(Eng, focus.activeElement) - 1)
                     => focus'.activeElement = _getStageFocusableElements(Eng)[
                            focusablePosition(Eng, focus.activeElement) - 1]]_vars

\* Tab on the reset button, the last of at least three focusable elements,
\* brought the focus to the first control of the stage
C35_Witness ==
    /\ lastOp.op = "tab" /\ lastOp.ok /\ lastOp.value = Bool(FALSE)
    /\ lastOp.field = "reset"
    /\ Len(_getStageFocusableElements(Eng)) >= 3
    /\ focus.activeElement = _getStageFocusableElements(Eng)[1]
    /\ focus.activeElement \in FieldNames

\* a multi-stage schema is loaded and its stage or summary is on screen
multiStageRendered ==
    loaded /\ isMultiStage(schemaOf(Eng)) /\ dom.view \in {"form", "summary"}

\* the accepted targets whose render is a jump: those other than the stage
\* on screen, whose own step button is disabled
jumpTargets(e) == acceptedTargets(e) \ {e.currentStage}

\* C39: while a multi-stage form is rendered, step k of the indicator is
\* enabled iff k differs from currentStage and k <= furthestStageReached;
\* the enabled steps are exactly the targets the click listener accepts for
\* a jump, a click on one of them shows that stage, and every step beyond
\* furthestStageReached is disabled and refused by the listener.
C39_EnabledStepsAreJumpTargets ==
    /\ [](multiStageRendered =>
            /\ dom.steps = Len(schemaOf(Eng).stages)
            /\ dom.enabledSteps = {k \in 0..(dom.steps - 1) :
                                      k # currentStage /\ k <= furthestStageReached}
            /\ dom.enabledSteps = jumpTargets(Eng)
            /\ \A k \in 0..(dom.steps - 1) :
                   k > furthestStageReached
                       => k \notin dom.enabledSteps \cup acceptedTargets(Eng))
    /\ [][(multiStageRendered /\ lastOp'.op = "jump" /\ lastOp'.k \in dom.enabledSteps)
             => lastOp'.ok /\ currentStage' = lastOp'.k]_vars
    /\ [][(multiStageRendered /\ lastOp'.op = "jump" /\ lastOp'.k > furthestStageReached)
             => ~lastOp'.ok /\ currentStage' = currentStage]_vars

\* a three-stage form on its second stage: the first step is enabled, the
\* current one and the one not yet reached are disabled
C39_Witness ==
    /\ multiStageRendered
    /\ dom.steps = 3 /\ currentStage = 1 /\ furthestStageReached = 1
    /\ dom.enabledSteps = {0}
    /\ lastOp.op = "jump" /\ lastOp.ok /\ lastOp.k = 1

\* field n of the loaded schema is conditional and st does not display it
hiddenIn(n, st) ==
    \E f \in Range(getFields(schemaOf(Eng), NotANumber)) :
        f.name = n /\ f.hasShowIf /\ ~shouldDisplayField(f, st)

\* C38: a change or input event on field f leaves currentStage and
\* furthestStageReached as they were, and every state entry is as before
\* except state[f], which holds the event's value, and the entries removed
\* (that of f included, when f is itself hidden by the new state), which all
\* belong to conditional fields whose showIf is false in the new state.
\* The debounced render of an input event changes the state entries in the
\* same way only.
C38_FieldEventFrame ==
    /\ [][(lastOp'.op \in {"change", "input"} /\ loaded)
           =>
           /\ currentStage' = currentStage
           /\ furthestStageReached' = furthestStageReached
           /\ activeSchema' = activeSchema
           /\ \A n \in FieldNames :
                 \/ state'[n] = state[n] /\ (n # lastOp'.field \/ ~lastOp'.ok)
                 \/ n = lastOp'.field /\ lastOp'.ok /\ state'[n] = lastOp'.value
                 \/ /\ state[n] # Undefined \/ (n = lastOp'.field /\ lastOp'.ok)
                    /\ state'[n] = Undefined /\ hiddenIn(n, state')]_vars
    /\ [][(lastOp'.op = "timer" /\ loaded)
            => \A n \in FieldNames :
                  \/ state'[n] = state[n]
                  \/ state[n] # Undefined /\ state'[n] = Undefined
                                          /\ hiddenIn(n, state')]_vars

\* a change removed the value of a dependent of the field and kept the value
\* of another field
C38_Witness ==
    /\ lastOp.op = "change" /\ lastOp.k >= 1
    /\ state[lastOp.field] = lastOp.value
    /\ \E n \in FieldNames \ {lastOp.field} : state[n] = Undefined /\ hiddenIn(n, state)
    /\ \E n \in FieldNames \ {lastOp.field} : state[n] # Undefined

\* C36: shouldDisplayField is true for a field without showIf and otherwise
\* true exactly when the controller's entry has the type and the content of
\* showIf.equals: the string "true" does not satisfy equals: true, and an
\* unset controller satisfies no defined equals value.
C36_StrictEquality ==
    lastOp.op = "display" =>
        /\ lastOp.ok = (\/ lastOp.k = 0
                        \/ /\ state[lastOp.field][1] = lastOp.value[1]
                           /\ state[lastOp.field][2] = lastOp.value[2])
        /\ (lastOp.k = 1 /\ lastOp.value = Bool(TRUE) /\ state[lastOp.field] = Str("true"))
              => ~lastOp.ok
        /\ (lastOp.k = 1 /\ lastOp.value # Undefined /\ state[lastOp.field] = Undefined)
              => ~lastOp.ok

\* the condition equals: true met the string "true" and the field is not
\* displayed
C36_Witness ==
    /\ lastOp.op = "display" /\ lastOp.k = 1 /\ ~lastOp.ok
    /\ lastOp.field = "hasPet" /\ lastOp.value = Bool(TRUE)
    /\ state["hasPet"] = Str("true")

\* the fields of stage k (0-based) of the loaded schema that are not plain
\* text and whose showIf holds in the state
listedFields(k) ==
    SelectSeq(Schemas[activeSchema].stages[k + 1].fields,
              LAMBDA f : /\ f.type \notin {"plain text", "plaintext", "Plain Text",
                                            "PLAINTEXT", "PlainText"}
                         /\ (f.hasShowIf => state[f.showIf.field] = f.showIf.equals))

\* the stages of the loaded schema that the summary has a section for
listedStages ==
    {k \in 0..(Len(Schemas[activeSchema].stages) - 1) :
        Schemas[activeSchema].stages[k + 1].type # "summary" /\ listedFields(k) # <<>>}

\* the text the summary shows for field f with the value it has in the state
textFits(f, text) ==
    IF state[f.name] \in {Undefined, Null, Str("")} THEN text = "em dash"
    ELSE IF f.type = "checkbox"
    THEN (state[f.name] = Bool(TRUE) => text = "ken")
         /\ (state[f.name] = Bool(FALSE) => text = "lo")
    ELSE IF f.type \in {"select", "radio"}
    THEN \A i \in 1..Len(OPTIONS) :
             (OPTIONS[i].value = state[f.name]) => text = OPTIONS[i].label
    ELSE text = state[f.name][2]

\* C37: the summary has one section for each non-summary stage that has a
\* field to list, in the order of the stages, and none for the others; the
\* rows of a section are exactly the stage's non-plain-text fields whose
\* showIf holds in the state, in their order; an absent, null or empty value
\* is shown as the em-dash placeholder, a checkbox value as the yes/no token
\* and a select or radio value as the label of the matching option.
C37_SummaryListsVisibleFields ==
    lastOp.op = "summary" =>
        /\ {dom.summary[j].stage : j \in 1..Len(dom.summary)} = listedStages
        /\ \A i, j \in 1..Len(dom.summary) :
               i < j => dom.summary[i].stage < dom.summary[j].stage
        /\ \A j \in 1..Len(dom.summary) :
               /\ Len(dom.summary[j].rows) = Len(listedFields(dom.summary[j].stage))
               /\ \A r \in 1..Len(dom.summary[j].rows) :
                      /\ dom.summary[j].rows[r].name
                             = listedFields(dom.summary[j].stage)[r].name
                      /\ textFits(listedFields(dom.summary[j].stage)[r],
                                  dom.summary[j].rows[r].text)

\* a summary of two sections: the checkbox shows the yes token, the select
\* the label of its option, the radio group without a value the placeholder,
\* and the stage that holds only a plain-text block has no section
C37_Witness ==
    /\ lastOp.op = "summary"
    /\ state["hasPet"] = Bool(TRUE) /\ state["c"] = Str("a")
    /\ state["b"] = Undefined /\ state["d"] = Str("a")
    /\ dom.summary =
          << [stage |-> 0, rows |-> << [name |-> "hasPet", text |-> "ken"],
                                       [name |-> "c", text |-> "Label A"],
                                       [name |-> "b", text |-> "em dash"] >>],
             [stage |-> 1, rows |-> << [name |-> "d", text |-> "a"] >>] >>

====
